---- MODULE Spec2Model ----
(***************************************************************************)
(* Model of the OceanCurrents canvas effect (grid fluid simulation) of the *)
(* Better Than Fresh site: the React effect that owns the grids, its       *)
(* animation-frame loop and the stable-fluids step the loop runs.          *)
(*                                                                         *)
(* Numbers.  A JavaScript number is modelled as a fixed-point integer, a   *)
(* multiple of 1/Unit, or one of the three IEEE specials NaN, PInf, NInf.  *)
(* Every arithmetic result is rounded down to a multiple of 1/Unit, and a  *)
(* result whose magnitude exceeds MaxFinite overflows to an infinity, as   *)
(* a double does beyond 1.8e308.  Arithmetic on the specials follows IEEE  *)
(* 754: Inf - Inf = NaN, 0 * Inf = NaN, every comparison with NaN is       *)
(* false.                                                                  *)
(***************************************************************************)
EXTENDS Integers, Sequences, FiniteSets, TLC

(* ---------------------------------------------------------------------- *)
(* Bounds of the model                                                     *)
(* ---------------------------------------------------------------------- *)

\* Grid columns and rows (the source fixes 96 x 54; the model runs the same
\* code on a smaller grid).
width == 13
height == 7

\* The forcing clock advances by 0.08 per frame; frames stop after MaxFrames
\* of them in one run of the effect.
MaxFrames == 3

\* The wall clock (milliseconds) stops advancing at MaxNow.
MaxNow == 210

\* The calls of addForces and step a harness run makes.
MaxCalls == 3

\* calls of addForces on its own: 400 ticks of 0.08 take the stream's phase
\* (time * 0.3) and the gyres' (time * 0.2) through more than a full turn
MaxTicks == 400

\* frames of the long run
LongFrames == 300

(* ---------------------------------------------------------------------- *)
(* Numbers                                                                 *)
(* ---------------------------------------------------------------------- *)

Unit == 10000
MaxFinite == 100000000
PInf == 2000000000
NInf == -2000000000
NaN == 2000000001

IsNaN(x) == x = NaN
IsInf(x) == x = PInf \/ x = NInf
IsFinite(x) == NInf < x /\ x < PInf

Abs(n) == IF n < 0 THEN -n ELSE n

\* overflow of a finite result
Sat(n) == IF n > MaxFinite THEN PInf ELSE IF n < -MaxFinite THEN NInf ELSE n

FNeg(x) == IF IsFinite(x) THEN -x ELSE IF x = PInf THEN NInf ELSE IF x = NInf THEN PInf ELSE NaN

\* x + y
FAdd(x, y) ==
  IF IsFinite(x) /\ IsFinite(y) THEN Sat(x + y)
  ELSE IF IsNaN(x) \/ IsNaN(y) THEN NaN
  ELSE IF IsInf(x) THEN (IF IsInf(y) /\ y # x THEN NaN ELSE x)
  ELSE y

\* x - y
FSub(x, y) == FAdd(x, FNeg(y))

\* x * (n / d): the product of a number x and a finite coefficient given as
\* the ratio of two integers, d > 0, rounded down.  For a finite x it is
\* floor(x * n / d), computed from x = q * d + r as q * n + floor(r * n / d),
\* which stays within 32 bits for the coefficients the program uses.
FMulQ(x, n, d) ==
  IF IsFinite(x) THEN Sat((x \div d) * n + ((x % d) * n) \div d)
  ELSE IF IsNaN(x) \/ n = 0 THEN NaN
  ELSE IF n > 0 THEN x ELSE FNeg(x)

\* comparisons: false when either side is NaN
FLt(x, y) == ~IsNaN(x) /\ ~IsNaN(y) /\ x < y
FGt(x, y) == FLt(y, x)

\* Math.min(x, y)
FMin(x, y) == IF IsNaN(x) \/ IsNaN(y) THEN NaN ELSE IF x < y THEN x ELSE y

\* Math.floor(x) of a coordinate: the integer part as a plain integer (an
\* array index), or the special itself.
FFloor(x) == IF IsFinite(x) THEN x \div Unit ELSE x

\* the number n (an integer) as a number of the model
Num(n) == n * Unit

(* ---------------------------------------------------------------------- *)
(* Math.sin, Math.cos                                                      *)
(* ---------------------------------------------------------------------- *)

\* Math.PI, in 1/Unit
Pi == 31416

\* Math.sin(x) by Bhaskara's rational approximation
\*   sin y ~ 16 y (pi - y) / (5 pi^2 - 4 y (pi - y)),  0 <= y <= pi,
\* after reduction of x modulo 2 pi.
Sin(x) ==
  IF ~IsFinite(x) THEN NaN
  ELSE LET r == x % (2 * Pi)
           y == IF r >= Pi THEN r - Pi ELSE r
           u == (y * (Pi - y)) \div 100000
           v == (16 * u * Unit) \div (49348 - 4 * u)
       IN IF r >= Pi THEN -v ELSE v

\* Math.cos(x)
Cos(x) == IF ~IsFinite(x) THEN NaN ELSE Sin(x + Pi \div 2)

(* ---------------------------------------------------------------------- *)
(* Grids                                                                   *)
(* ---------------------------------------------------------------------- *)

Cols == 0 .. width - 1
Rows == 0 .. height - 1

\* a grid of zeros: what initArrays builds, and Array(width).fill(0).map(...)
ZeroGrid == [i \in Cols |-> [j \in Rows |-> 0]]

\* the empty array a ref holds before the effect has run
NoGrid == << >>

IsGrid(g) == DOMAIN g = Cols /\ \A i \in Cols : DOMAIN g[i] = Rows

Interior(i, j) == 1 <= i /\ i <= width - 2 /\ 1 <= j /\ j <= height - 2

\* The array g with every cell computed and stored: the same array.  (The
\* two EXCEPTs change nothing; they make TLC evaluate the cells once instead
\* of at every read.)
Stored(g) == [[i \in Cols |-> [g[i] EXCEPT ![0] = @]] EXCEPT ![0] = @]

\* JSON.parse(JSON.stringify(g)): JSON has no NaN or Infinity, stringify
\* writes them as null, and null is 0 in every arithmetic use.
JsonCopy(g) ==
  Stored([i \in Cols |-> [j \in Rows |-> IF IsFinite(g[i][j]) THEN g[i][j] ELSE 0]])

(* ---------------------------------------------------------------------- *)
(* diffuse                                                                 *)
(* ---------------------------------------------------------------------- *)

\* viscosity 0.000008 and diffusion rate 0.00008, in millionths
visc == 8
diff == 80

\* a = dt * diff * (width - 2) * (height - 2)
DiffuseA(coef, dt) == FMulQ(dt, coef * (width - 2) * (height - 2), 1000000)

\* x[i][j] = (x0[i][j] + a * (x[i-1][j] + x[i+1][j] + x[i][j-1] + x[i][j+1])) / (1 + 4a)
DiffuseCell(x, x0, a, i, j) ==
  LET nb == FAdd(FAdd(FAdd(x[i - 1][j], x[i + 1][j]), x[i][j - 1]), x[i][j + 1])
  IN FMulQ(FAdd(x0[i][j], FMulQ(nb, a, Unit)), Unit, Unit + 4 * a)

\* The loops below are recursions that hand the array on from one cell, one
\* column and one iteration to the next.  Each first tests the array it was
\* handed (DOMAIN x # Cols, never true), which makes TLC evaluate it before
\* the recursion goes deeper.

\* the inner loop, j = 1 .. height - 2, of one sweep at column i, from row j
\* on: each cell reads the cells the sweep has already rewritten
RECURSIVE DiffuseColumn(_, _, _, _, _)
DiffuseColumn(x, x0, a, i, j) ==
  IF DOMAIN x # Cols \/ j > height - 2 THEN x
  ELSE DiffuseColumn([x EXCEPT ![i][j] = DiffuseCell(x, x0, a, i, j)], x0, a, i, j + 1)

\* the outer loop, i = 1 .. width - 2, of one sweep, from column i on
RECURSIVE DiffuseSweep(_, _, _, _)
DiffuseSweep(x, x0, a, i) ==
  IF DOMAIN x # Cols \/ i > width - 2 THEN x
  ELSE DiffuseSweep(DiffuseColumn(x, x0, a, i, 1), x0, a, i + 1)

\* the loop k = 0 .. iterations - 1, with k iterations to go
RECURSIVE DiffuseIter(_, _, _, _)
DiffuseIter(x, x0, a, k) ==
  IF DOMAIN x # Cols \/ k = 0 THEN x
  ELSE DiffuseIter(DiffuseSweep(x, x0, a, 1), x0, a, k - 1)

\* diffuse(x, x0, diff, dt): the array x after the call (4 iterations)
Diffuse(x, x0, coef, dt) == DiffuseIter(x, x0, DiffuseA(coef, dt), 4)

(* ---------------------------------------------------------------------- *)
(* advect                                                                  *)
(* ---------------------------------------------------------------------- *)

\* only the first clamp of a coordinate
ClampLower(x) == IF FLt(x, Unit \div 2) THEN Unit \div 2 ELSE x

\* TraceCoord with the second clamp forgotten
TraceCoordNoUpper(c, n, v, dt) == ClampLower(FSub(Num(c), FMulQ(v, dt * (n - 2), Unit)))

\* the two `if` clamps of a coordinate x on an axis of n cells: to 0.5 from
\* below, to n - 1.5 from above; NaN passes both
Clamp(x, n) ==
  IF FLt(x, Unit \div 2) THEN Unit \div 2
  ELSE IF FGt(x, Num(n) - (3 * Unit) \div 2) THEN Num(n) - (3 * Unit) \div 2
  ELSE x

\* the back-traced and clamped coordinate of cell index c along one axis of
\* n cells: c - dt * (n - 2) * v, then the clamps
TraceCoord(c, n, v, dt) == Clamp(FSub(Num(c), FMulQ(v, dt * (n - 2), Unit)), n)

\* x + 1 of an index that may be NaN
Succ(i0) == IF IsNaN(i0) THEN NaN ELSE i0 + 1

\* the coordinates x, y with their indices: i0 = floor(x), i1 = i0 + 1,
\* j0 = floor(y), j1 = j0 + 1
WithIdx(x, y) ==
  [x |-> x, y |-> y,
   i0 |-> FFloor(x), i1 |-> Succ(FFloor(x)),
   j0 |-> FFloor(y), j1 |-> Succ(FFloor(y))]

\* what advect computes for cell (i, j): the coordinates and the indices
AdvectIdx(velX, velY, dt, i, j) ==
  WithIdx(TraceCoord(i, width, velX[i][j], dt), TraceCoord(j, height, velY[i][j], dt))

\* the guard `i0 >= 0 && i1 < width && j0 >= 0 && j1 < height`
AdvectGuard(ix) ==
  /\ ~IsNaN(ix.i0) /\ ix.i0 >= 0
  /\ ~IsNaN(ix.i1) /\ ix.i1 < width
  /\ ~IsNaN(ix.j0) /\ ix.j0 >= 0
  /\ ~IsNaN(ix.j1) /\ ix.j1 < height

\* s0 * (t0 * d0[i0][j0] + t1 * d0[i0][j1]) + s1 * (t0 * d0[i1][j0] + t1 * d0[i1][j1])
\* with s1 = x - i0, s0 = 1 - s1, t1 = y - j0, t0 = 1 - t1
Bilinear(d0, i0, j0, s1, t1) ==
  FAdd(FMulQ(FAdd(FMulQ(d0[i0][j0], Unit - t1, Unit),
                  FMulQ(d0[i0][j0 + 1], t1, Unit)), Unit - s1, Unit),
       FMulQ(FAdd(FMulQ(d0[i0 + 1][j0], Unit - t1, Unit),
                  FMulQ(d0[i0 + 1][j0 + 1], t1, Unit)), s1, Unit))

\* the value advect leaves in d[i][j], given what it has computed for the cell
AdvectAt(d, d0, ix, i, j) ==
  IF AdvectGuard(ix)
  THEN Bilinear(d0, ix.i0, ix.j0, ix.x - Num(ix.i0), ix.y - Num(ix.j0))
  ELSE d[i][j]

\* the value advect leaves in d[i][j]
AdvectCell(d, d0, velX, velY, dt, i, j) ==
  AdvectAt(d, d0, AdvectIdx(velX, velY, dt, i, j), i, j)

\* the cells of d0 advect reads for cell (i, j): the four corners, inside
\* the guard
AdvectReads(ix) ==
  IF AdvectGuard(ix)
  THEN {<<ix.i0, ix.j0>>, <<ix.i0, ix.j1>>, <<ix.i1, ix.j0>>, <<ix.i1, ix.j1>>}
  ELSE {}

\* advect with its loops running over every cell, the border included
AdvectEveryCell(d, d0, velX, velY, dt) ==
  Stored([i \in Cols |-> [j \in Rows |-> AdvectCell(d, d0, velX, velY, dt, i, j)]])

\* advect(d, d0, velX, velY, dt): the array d after the call.  d is only
\* written, never read, so the cells do not depend on the loops' order.
Advect(d, d0, velX, velY, dt) ==
  Stored([i \in Cols |-> [j \in Rows |->
            IF Interior(i, j) THEN AdvectCell(d, d0, velX, velY, dt, i, j) ELSE d[i][j]]])

(* ---------------------------------------------------------------------- *)
(* project                                                                 *)
(* ---------------------------------------------------------------------- *)

\* div[i][j] = -0.5 * (velX[i+1][j] - velX[i-1][j] + velY[i][j+1] - velY[i][j-1])
\*             / ((width + height) / 2)
DivCell(velX, velY, i, j) ==
  FMulQ(FMulQ(FSub(FAdd(FSub(velX[i + 1][j], velX[i - 1][j]), velY[i][j + 1]),
                   velY[i][j - 1]),
              -1, 2),
        2, width + height)

\* the first loop of project: div at the interior cells, p zeroed there
ProjectDiv(velX, velY, dv) ==
  Stored([i \in Cols |-> [j \in Rows |->
            IF Interior(i, j) THEN DivCell(velX, velY, i, j) ELSE dv[i][j]]])

\* a first loop that does not zero p
ProjectKeepP(p) == p

ProjectZeroP(p) ==
  Stored([i \in Cols |-> [j \in Rows |-> IF Interior(i, j) THEN 0 ELSE p[i][j]]])

\* p[i][j] = (div[i][j] + p[i-1][j] + p[i+1][j] + p[i][j-1] + p[i][j+1]) / 4
PressureCell(p, dv, i, j) ==
  FMulQ(FAdd(FAdd(FAdd(FAdd(dv[i][j], p[i - 1][j]), p[i + 1][j]), p[i][j - 1]), p[i][j + 1]),
        1, 4)

\* the loops of the pressure sweeps, as those of diffuse
RECURSIVE PressureColumn(_, _, _, _)
PressureColumn(p, dv, i, j) ==
  IF DOMAIN p # Cols \/ j > height - 2 THEN p
  ELSE PressureColumn([p EXCEPT ![i][j] = PressureCell(p, dv, i, j)], dv, i, j + 1)

RECURSIVE PressureSweep(_, _, _)
PressureSweep(p, dv, i) ==
  IF DOMAIN p # Cols \/ i > width - 2 THEN p
  ELSE PressureSweep(PressureColumn(p, dv, i, 1), dv, i + 1)

\* the loop k = 0 .. 3, with k iterations to go
RECURSIVE PressureIter(_, _, _)
PressureIter(p, dv, k) ==
  IF DOMAIN p # Cols \/ k = 0 THEN p
  ELSE PressureIter(PressureSweep(p, dv, 1), dv, k - 1)

\* the gradient added instead of subtracted
AddGradient(v, pHi, pLo, n) == FAdd(v, FMulQ(FMulQ(FSub(pHi, pLo), 1, 2), n, 1))

\* vel[i][j] -= 0.5 * (p[hi] - p[lo]) * n
SubGradient(v, pHi, pLo, n) == FSub(v, FMulQ(FMulQ(FSub(pHi, pLo), 1, 2), n, 1))

\* the last loop of project, given the pressure p1 and the divergence dv1 the
\* loops before it have left: the four arrays after the call
ProjectOut(velX, velY, p1, dv1) ==
  [velX |-> Stored([i \in Cols |-> [j \in Rows |->
              IF Interior(i, j)
              THEN SubGradient(velX[i][j], p1[i + 1][j], p1[i - 1][j], width)
              ELSE velX[i][j]]]),
   velY |-> Stored([i \in Cols |-> [j \in Rows |->
              IF Interior(i, j)
              THEN SubGradient(velY[i][j], p1[i][j + 1], p1[i][j - 1], height)
              ELSE velY[i][j]]]),
   p |-> p1,
   div |-> dv1]

\* project from its second loop on: the four pressure sweeps, then the last
\* loop
ProjectSolve(velX, velY, p0, dv1) == ProjectOut(velX, velY, PressureIter(p0, dv1, 4), dv1)

\* project(velX, velY, p, div): the four arrays after the call
Project(velX, velY, p, dv) ==
  ProjectSolve(velX, velY, ProjectZeroP(p), ProjectDiv(velX, velY, dv))

(* ---------------------------------------------------------------------- *)
(* addForces                                                               *)
(* ---------------------------------------------------------------------- *)

\* the grid of the component: `const width = 96`, `const height = 54`
GridW == 96
GridH == 54

\* the guard `x > 0 && x < width && y > 0 && y < height` on a w by h grid
ForceGuardAt(w, h, x, y) == x > 0 /\ x < w /\ y > 0 /\ y < h

ForceGuard(x, y) == ForceGuardAt(width, height, x, y)

\* density + amount, without the Math.min
AddDensityUnclamped(d, amount) == FAdd(d, amount)

\* Math.min(density + amount, 1)
AddDensity(d, amount) == FMin(FAdd(d, amount), Unit)

\* the three writes of one forcing point, inside its guard: velocity
\* (fx, fy) and density amount are added at cell (x, y)
AddAt(g, x, y, fx, fy, amount) ==
  IF ForceGuard(x, y)
  THEN [velX |-> [g.velX EXCEPT ![x][y] = FAdd(@, fx)],
        velY |-> [g.velY EXCEPT ![x][y] = FAdd(@, fy)],
        density |-> [g.density EXCEPT ![x][y] = AddDensity(@, amount)]]
  ELSE g

\* streamX = floor(width * 0.3), on a grid of w columns
StreamXAt(w) == (w * 3) \div 10

StreamX == StreamXAt(width)

\* streamY = floor(height / 2 + sin(time * 0.3) * height * 0.2), on a grid of
\* h rows
StreamYAt(h, time) ==
  FFloor(FAdd(FMulQ(Num(h), 1, 2),
              FMulQ(FMulQ(Sin(FMulQ(time, 3, 10)), h, 1), 2, 10)))

StreamY(time) == StreamYAt(height, time)

\* a force of 0.4 whatever the intensity
StreamForceFixed(intensity) == (4 * Unit) \div 10

\* force = intensity * 0.4
StreamForce(intensity) == FMulQ(intensity, 4, 10)

\* the stream: force on velocity x, sin(time * 0.5) * force * 0.3 on velocity
\* y, 0.8 of density
AddStream(g, time, intensity) ==
  AddAt(g, StreamX, StreamY(time),
        StreamForce(intensity),
        FMulQ(FMulQ(StreamForce(intensity), Sin(FMulQ(time, 5, 10)), Unit), 3, 10),
        (8 * Unit) \div 10)

\* angle of sample a of gyre k: (a / 6) * PI * 2 + time * 0.2 + k * 2.1
GyreAngle(k, a, time) ==
  FAdd(FMulQ(FMulQ(FMulQ(Num(a), 1, 6), Pi, Unit), 2, 1),
       FAdd(FMulQ(time, 2, 10), (k * 21 * Unit) \div 10))

\* a radius that grows by 8 a gyre
GyreRadiusWide(k) == 8 + k * 8

\* gyreRadius = 8 + g * 3
GyreRadius(k) == 8 + k * 3

\* gyre centres 0.15 of the width farther to the right
GyreXAtFar(w, k, angle) ==
  FFloor(FAdd(FMulQ(Num(w), 45 + k * 25, 100), FMulQ(Cos(angle), GyreRadius(k), 1)))

\* x = floor(width * (0.3 + k * 0.25) + cos(angle) * gyreRadius), on a grid
\* of w columns
GyreXAt(w, k, angle) ==
  FFloor(FAdd(FMulQ(Num(w), 30 + k * 25, 100), FMulQ(Cos(angle), GyreRadius(k), 1)))

GyreX(k, angle) == GyreXAt(width, k, angle)

\* y = floor(height * 0.5 + sin(angle) * gyreRadius), on a grid of h rows
GyreYAt(h, k, angle) ==
  FFloor(FAdd(FMulQ(Num(h), 5, 10), FMulQ(Sin(angle), GyreRadius(k), 1)))

GyreY(k, angle) == GyreYAt(height, k, angle)

\* the cells addForces aims at on a w by h grid when the forcing clock reads
\* time: the stream cell and the 18 gyre samples
ForcingPoints(w, h, time) ==
  {<<StreamXAt(w), StreamYAt(h, time)>>} \cup
  {<<GyreXAt(w, k, GyreAngle(k, a, time)), GyreYAt(h, k, GyreAngle(k, a, time))>> :
     k \in 0 .. 2, a \in 0 .. 5}

\* the cells addForces writes: the points its guards let through
ForcedCells(w, h, time) ==
  {c \in ForcingPoints(w, h, time) : ForceGuardAt(w, h, c[1], c[2])}

\* a gyre sample whose density is scaled by the intensity as its velocity is
AddGyrePointScaled(g, k, angle, intensity) ==
  AddAt(g, GyreX(k, angle), GyreY(k, angle),
        FMulQ(FMulQ(intensity, -Sin(angle), Unit), 15, 100),
        FMulQ(FMulQ(intensity, Cos(angle), Unit), 15, 100),
        FMulQ(intensity, k + 1, 4))

\* one sample of a gyre at the given angle: the tangent velocity
\* (-sin * intensity * 0.15, cos * intensity * 0.15) and (k + 1) / 4 of density
AddGyrePoint(g, k, angle, intensity) ==
  AddAt(g, GyreX(k, angle), GyreY(k, angle),
        FMulQ(FMulQ(intensity, -Sin(angle), Unit), 15, 100),
        FMulQ(FMulQ(intensity, Cos(angle), Unit), 15, 100),
        ((k + 1) * Unit) \div 4)

\* sample a of gyre k
AddGyreSample(g, k, a, time, intensity) ==
  AddGyrePoint(g, k, GyreAngle(k, a, time), intensity)

\* the two nested loops, g = 0..2 and a = 0..5, numbered n = 6 g + a, from
\* sample n on
RECURSIVE AddGyres(_, _, _, _)
AddGyres(g, n, time, intensity) ==
  IF DOMAIN g.density # Cols \/ n >= 18 THEN g
  ELSE AddGyres(AddGyreSample(g, n \div 6, n % 6, time, intensity), n + 1, time, intensity)

\* addForces, after `time += 0.08`: the grids it leaves
AddForces(g, time, intensity) == AddGyres(AddStream(g, time, intensity), 0, time, intensity)

(* ---------------------------------------------------------------------- *)
(* render                                                                  *)
(* ---------------------------------------------------------------------- *)

\* the five RGB triples of the palette, indexed from 0
nauticalColors ==
  [c \in 0 .. 4 |-> << <<10, 25, 47>>, <<17, 34, 64>>, <<212, 175, 55>>,
                       <<100, 255, 218>>, <<136, 146, 176>> >>[c + 1]]

\* d = Math.min(density[i][j], 1)
RenderD(density, i, j) == FMin(density[i][j], Unit)

\* the test `d > 0.01`
Visible(density, i, j) == FGt(RenderD(density, i, j), Unit \div 100)

\* colorIndex = Math.floor(d * 5) % 5
ColorIndex(d) == FFloor(FMulQ(d, 5, 1)) % 5

\* gold at every cell above 0.6, wherever it is
IsGoldAnywhere(d, i, j) == FGt(d, (6 * Unit) \div 10)

\* isGold = d > 0.6 && (i + j) % 7 === 0
IsGold(d, i, j) == FGt(d, (6 * Unit) \div 10) /\ (i + j) % 7 = 0

\* the palette index of finalColor
FinalColorIndex(d, i, j) == IF IsGold(d, i, j) THEN 2 ELSE ColorIndex(d)

\* the disc render draws for a visible cell: fill colour, alpha, centre and
\* radius on a canvas of cw x ch pixels
DrawCall(density, sp, cw, ch, i, j) ==
  LET d == RenderD(density, i, j)
      cellWidth == FMulQ(Num(cw), 1, width)
      cellHeight == FMulQ(Num(ch), 1, height)
      w == FMulQ(cellWidth, 15, 10)
      h == FMulQ(cellHeight, 15, 10)
  IN [i |-> i, j |-> j,
      rgb |-> nauticalColors[FinalColorIndex(d, i, j)],
      alpha |-> FMulQ(FMulQ(d, 6, 10), FSub(Unit, FMulQ(sp, 3, 10)), Unit),
      cx |-> FAdd(FMulQ(cellWidth, i, 1), FMulQ(cellWidth, 1, 2)),
      cy |-> FAdd(FMulQ(cellHeight, j, 1), FMulQ(cellHeight, 1, 2)),
      radius |-> FMulQ(IF FGt(w, h) THEN w ELSE h, 1, 2)]

\* the cells in the order of render's loops, i outer and j inner
CellSeq == [k \in 1 .. width * height |-> <<(k - 1) \div height, (k - 1) % height>>]

\* the discs one render call draws, in order
RenderCalls(density, sp, cw, ch) ==
  LET Shown(c) == Visible(density, c[1], c[2])
      cells == SelectSeq(CellSeq, Shown)
  IN [k \in 1 .. Len(cells) |-> DrawCall(density, sp, cw, ch, cells[k][1], cells[k][2])]

\* the fade loop forgotten
DecayNone(density) == density

\* densityRef.current[i][j] *= 0.995 at every cell
Decay(density) ==
  Stored([i \in Cols |-> [j \in Rows |-> FMulQ(density[i][j], 995, 1000)]])


(* ---------------------------------------------------------------------- *)
(* animate's time step, the forcing clock, sums and maxima                 *)
(* ---------------------------------------------------------------------- *)

\* dt taken from the clock reading itself instead of the time since the last
\* frame
DtOfClock(t, last) == FMin(FMulQ(Num(t), 1, 1000), Unit \div 10)

\* dt without the Math.min
DtOfUnclamped(t, last) == FMulQ(Num(t - last), 1, 1000)

\* dt = Math.min((now - lastTime) / 1000, 0.1), in seconds
DtOf(t, last) == FMin(FMulQ(Num(t - last), 1, 1000), Unit \div 10)

\* time += 0.08
TimeStep == (8 * Unit) \div 100

\* the largest cell of a grid of finite numbers
RECURSIVE MaxSeq(_, _)
MaxSeq(f, n) == IF n = 0 THEN f[0] ELSE LET m == MaxSeq(f, n - 1) IN IF f[n] > m THEN f[n] ELSE m

MaxOf(g) == MaxSeq([i \in Cols |-> MaxSeq(g[i], height - 1)], width - 1)

RECURSIVE SumSeq(_, _)
SumSeq(f, n) == IF n < 0 THEN 0 ELSE f[n] + SumSeq(f, n - 1)

\* the sum of a grid of finite numbers
Total(g) == SumSeq([i \in Cols |-> SumSeq(g[i], height - 1)], width - 1)

(* ---------------------------------------------------------------------- *)
(* State                                                                   *)
(* ---------------------------------------------------------------------- *)

VARIABLES
  effect,             \* "none" before the effect has run, "active", "cleaned"
  intensity,          \* the intensity prop
  scrollProgress,     \* the scrollProgress prop
  window,             \* <<innerWidth, innerHeight>>
  canvas,             \* <<canvas.width, canvas.height>>
  listening,          \* handleResize is registered on window
  velocityX,          \* velocityRef.current.x
  velocityY,          \* velocityRef.current.y
  density,            \* densityRef.current
  time,               \* the forcing clock of the effect's closure
  lastTime,           \* the clock reading of the last animate call
  now,                \* Date.now()
  animationFrameRef,  \* animationFrameRef.current, 0 for undefined
  pending,            \* handles of the animation frames requested and not yet run
  pc,                 \* the statement of animate / step that runs next, or "idle"
  inEffect,           \* animate was called by the effect body, which resumes after it
  caller,             \* who runs the frame: "animate" or, in the harness, "step"
  dt,                 \* the dt of the frame that is running
  velX0, velY0, s, p, div,   \* the locals of step
  drawCalls,          \* what is on the canvas: the discs drawn since it was cleared
  done,               \* history: the sub-steps the running frame has finished
  lastEvent,          \* history: the last event or call from outside
  densityBefore,      \* history: the density grid when the frame or call began
  calls,              \* harness: the calls made so far
  twin,               \* the second of two runs side by side, << >> when there is one
  app                 \* the App component's state, << >> where App is not modelled

grids == <<velocityX, velocityY, density>>
locals == <<velX0, velY0, s, p, div>>
props == <<intensity, scrollProgress>>
clock == <<time, lastTime, now>>
hist == <<done, lastEvent, densityBefore>>
aside == <<calls, twin, app>>
vars == <<effect, props, window, canvas, listening, grids, clock, animationFrameRef, pending,
          pc, inEffect, caller, dt, locals, drawCalls, hist, aside>>

\* the values of the props, of the window and of the clock
Intensities == {0, (8 * Unit) \div 10}
ScrollValues == {0, Unit \div 2}

\* window sizes, and the size of a canvas element nobody has sized
WindowSizes == {<<1280, 720>>, <<640, 480>>}
DefaultCanvas == <<300, 150>>

\* milliseconds the wall clock advances between two animation frames
ClockDeltas == {60, 150}

\* the sub-steps of one frame, in the order animate and step run them
StepOrder ==
  <<"addForces", "copy", "diffuseVelX", "diffuseVelY", "project1", "advectVelX",
    "advectVelY", "project2", "diffuseDensity", "advectDensity", "decay", "render",
    "request">>

\* the statement that follows c with advection run before the first
\* projection
NextPcAdvectFirst(c) ==
  LET order == <<"addForces", "copy", "diffuseVelX", "diffuseVelY", "advectVelX",
                 "advectVelY", "project1", "project2", "diffuseDensity", "advectDensity",
                 "decay", "render", "request">>
      k == CHOOSE n \in 1 .. Len(order) : order[n] = c
  IN IF k = Len(order) THEN "idle" ELSE order[k + 1]

\* the statement that follows statement c in animate / step
NextPc(c) ==
  LET k == CHOOSE n \in 1 .. Len(StepOrder) : StepOrder[n] = c
  IN IF k = Len(StepOrder) THEN "idle" ELSE StepOrder[k + 1]

\* the component before React has run its effect
Unmounted ==
  /\ effect = "none"
  /\ scrollProgress = 0
  /\ window = <<1280, 720>>
  /\ canvas = DefaultCanvas
  /\ listening = FALSE
  /\ velocityX = NoGrid /\ velocityY = NoGrid /\ density = NoGrid
  /\ time = 0 /\ lastTime = 0 /\ now = 0
  /\ animationFrameRef = 0
  /\ pending = {}
  /\ pc = "idle"
  /\ inEffect = FALSE
  /\ dt = 0
  /\ velX0 = NoGrid /\ velY0 = NoGrid /\ s = NoGrid /\ p = NoGrid /\ div = NoGrid
  /\ drawCalls = << >>
  /\ done = << >>
  /\ lastEvent = "none"
  /\ densityBefore = NoGrid
  /\ calls = 0

Init ==
  /\ Unmounted
  /\ intensity \in Intensities
  /\ caller = "animate"
  /\ twin = << >>
  /\ app = << >>

(* ---------------------------------------------------------------------- *)
(* The effect: mount, re-run on a prop change, cleanup                     *)
(* ---------------------------------------------------------------------- *)

\* an effect body without its call of initArrays()
EffectBodyNoInit ==
  /\ canvas' = window
  /\ time' = 0
  /\ lastTime' = now
  /\ now' = now
  /\ pc' = "animate"
  /\ inEffect' = TRUE
  /\ drawCalls' = << >>
  /\ UNCHANGED <<window, grids, caller, dt, locals, done, densityBefore, aside>>

\* The body of the effect up to its call of animate(): the canvas takes the
\* window's size, initArrays zeroes the grids, the closure gets a new forcing
\* clock and lastTime = Date.now().
EffectBody ==
  /\ canvas' = window
  /\ velocityX' = ZeroGrid /\ velocityY' = ZeroGrid /\ density' = ZeroGrid
  /\ time' = 0
  /\ lastTime' = now
  /\ now' = now
  /\ pc' = "animate"
  /\ inEffect' = TRUE
  /\ drawCalls' = << >>
  /\ UNCHANGED <<window, caller, dt, locals, done, densityBefore, aside>>

\* a cleanup that removes the listener and leaves the frame pending
CleanupNoCancel ==
  /\ listening' = FALSE
  /\ UNCHANGED <<pending, animationFrameRef>>

\* The cleanup the effect returns: the listener is removed and the frame the
\* ref names is cancelled.
Cleanup ==
  /\ listening' = FALSE
  /\ pending' = IF animationFrameRef # 0 THEN pending \ {animationFrameRef} ELSE pending
  /\ UNCHANGED animationFrameRef

\* React runs the effect after the first commit.
Mount ==
  /\ effect = "none" /\ pc = "idle"
  /\ effect' = "active"
  /\ EffectBody
  /\ lastEvent' = "mount"
  /\ UNCHANGED <<props, listening, animationFrameRef, pending>>

\* A new scrollProgress prop: the dependency list names it, so React runs
\* the cleanup and then the effect again.
SetScrollProgress ==
  /\ effect = "active" /\ pc = "idle"
  /\ \E v \in ScrollValues \ {scrollProgress} : scrollProgress' = v
  /\ Cleanup
  /\ EffectBody
  /\ lastEvent' = "scrollProgress"
  /\ UNCHANGED <<effect, intensity>>

\* A new intensity prop: likewise.
SetIntensity ==
  /\ effect = "active" /\ pc = "idle"
  /\ \E v \in Intensities \ {intensity} : intensity' = v
  /\ Cleanup
  /\ EffectBody
  /\ lastEvent' = "intensity"
  /\ UNCHANGED <<effect, scrollProgress>>

\* The component unmounts: the cleanup runs and nothing follows it.
Unmount ==
  /\ effect = "active" /\ pc = "idle"
  /\ effect' = "cleaned"
  /\ Cleanup
  /\ lastEvent' = "unmount"
  /\ UNCHANGED <<props, window, canvas, grids, clock, pc, inEffect, caller, dt, locals,
                 drawCalls, done, densityBefore, aside>>

\* a handleResize that also calls initArrays
HandleResizeInit ==
  /\ canvas' = window'
  /\ drawCalls' = << >>
  /\ velocityX' = ZeroGrid /\ velocityY' = ZeroGrid /\ density' = ZeroGrid
  /\ UNCHANGED locals

\* handleResize: the canvas takes the window's size (which clears it).
HandleResize ==
  /\ canvas' = window'
  /\ drawCalls' = << >>
  /\ UNCHANGED <<grids, locals>>

\* The window is resized; the handler runs if it is registered.
Resize ==
  /\ pc = "idle"
  /\ \E w \in WindowSizes \ {window} : window' = w
  /\ IF listening THEN HandleResize ELSE UNCHANGED <<canvas, drawCalls, grids, locals>>
  /\ lastEvent' = "resize"
  /\ UNCHANGED <<effect, props, listening, clock, animationFrameRef, pending, pc, inEffect,
                 caller, dt, done, densityBefore, aside>>

(* ---------------------------------------------------------------------- *)
(* animate                                                                 *)
(* ---------------------------------------------------------------------- *)

\* The first statements of animate, with the clock delta ms after its last
\* reading: dt is computed, lastTime updated, and addForces is next.
AnimateBegin(delta) ==
  /\ time < MaxFrames * TimeStep
  /\ now + delta <= MaxNow
  /\ now' = now + delta
  /\ dt' = DtOf(now + delta, lastTime)
  /\ lastTime' = now + delta
  /\ pc' = "addForces"
  /\ done' = << >>
  /\ densityBefore' = density
  /\ lastEvent' = "animate"
  /\ UNCHANGED <<effect, props, window, canvas, listening, grids, time, animationFrameRef,
                 inEffect, caller, locals, drawCalls, aside>>

\* animate() called by the effect body, in the same millisecond
AnimateCall ==
  /\ pc = "animate"
  /\ AnimateBegin(0)
  /\ UNCHANGED pending

\* the browser runs a requested animation frame
AnimateFrame ==
  /\ pc = "idle" /\ caller = "animate"
  /\ \E h \in pending :
       /\ pending' = pending \ {h}
       /\ \E delta \in ClockDeltas : AnimateBegin(delta)

\* the handle requestAnimationFrame returns: one that names no pending frame
NewHandle == CHOOSE h \in 1 .. Cardinality(pending) + 1 : h \notin pending

\* a request that schedules animate twice
RequestFrameTwice ==
  /\ pc = "request"
  /\ animationFrameRef' = NewHandle
  /\ pending' = pending \cup {NewHandle, Cardinality(pending) + 2}
  /\ pc' = IF inEffect THEN "listen" ELSE NextPc("request")
  /\ done' = Append(done, "request")
  /\ UNCHANGED <<effect, props, window, canvas, listening, grids, clock, inEffect, caller, dt,
                 locals, drawCalls, lastEvent, densityBefore, aside>>

\* animationFrameRef.current = requestAnimationFrame(animate)
RequestFrame ==
  /\ pc = "request"
  /\ animationFrameRef' = NewHandle
  /\ pending' = pending \cup {NewHandle}
  /\ pc' = IF inEffect THEN "listen" ELSE NextPc("request")
  /\ done' = Append(done, "request")
  /\ UNCHANGED <<effect, props, window, canvas, listening, grids, clock, inEffect, caller, dt,
                 locals, drawCalls, lastEvent, densityBefore, aside>>

\* back in the effect body: window.addEventListener('resize', handleResize)
Listen ==
  /\ pc = "listen"
  /\ listening' = TRUE
  /\ inEffect' = FALSE
  /\ pc' = "idle"
  /\ UNCHANGED <<effect, props, window, canvas, grids, clock, animationFrameRef, pending,
                 caller, dt, locals, drawCalls, hist, aside>>

(* ---------------------------------------------------------------------- *)
(* The sub-steps of a frame: addForces, step, render                       *)
(* ---------------------------------------------------------------------- *)

\* what every sub-step leaves alone
StepFrame ==
  UNCHANGED <<effect, props, window, canvas, listening, lastTime, now, animationFrameRef,
              pending, inEffect, caller, dt, lastEvent, densityBefore, aside>>

\* where a function called by animate returns to: the statement after the
\* call, or the harness that called it
ReturnTo(c) == IF caller = "animate" THEN NextPc(c) ELSE "idle"

\* the three grids take the arrays of g
WriteGrids(g) == velocityX' = g.velX /\ velocityY' = g.velY /\ density' = g.density

\* the four arrays a project call was given take what it has left in them:
\* the copies velX0, velY0 (first call) or the velocity grids (second call),
\* and p, div
ProjectInto(r, copies) ==
  /\ IF copies THEN velX0' = r.velX /\ velY0' = r.velY
     ELSE velocityX' = r.velX /\ velocityY' = r.velY
  /\ p' = r.p
  /\ div' = r.div

\* addForces(): time += 0.08, then the stream and the gyres
AddForcesStep ==
  /\ pc = "addForces"
  /\ time' = FAdd(time, TimeStep)
  /\ WriteGrids(AddForces([velX |-> velocityX, velY |-> velocityY, density |-> density],
                          FAdd(time, TimeStep), intensity))
  /\ pc' = ReturnTo("addForces")
  /\ done' = Append(done, "addForces")
  /\ StepFrame
  /\ UNCHANGED <<locals, drawCalls>>

\* the diffuse and advect calls of step and the arrays each is handed: the
\* array it writes (dst), the array it reads (src) and, for advect, the
\* flow field (u, v); coef is the coefficient of a diffuse call.  The eight
\* arrays are eight objects: the grids are made one by one in initArrays,
\* the five locals are made anew in each call of step.
StepCalls ==
  [diffuseVelX    |-> [fn |-> "diffuse", dst |-> "velX0", src |-> "velocityX",
                       u |-> "none", v |-> "none", coef |-> visc],
   diffuseVelY    |-> [fn |-> "diffuse", dst |-> "velY0", src |-> "velocityY",
                       u |-> "none", v |-> "none", coef |-> visc],
   advectVelX     |-> [fn |-> "advect", dst |-> "velocityX", src |-> "velX0",
                       u |-> "velX0", v |-> "velY0", coef |-> 0],
   advectVelY     |-> [fn |-> "advect", dst |-> "velocityY", src |-> "velY0",
                       u |-> "velX0", v |-> "velY0", coef |-> 0],
   diffuseDensity |-> [fn |-> "diffuse", dst |-> "s", src |-> "density",
                       u |-> "none", v |-> "none", coef |-> diff],
   advectDensity  |-> [fn |-> "advect", dst |-> "density", src |-> "s",
                       u |-> "velocityX", v |-> "velocityY", coef |-> 0]]

\* step(dt), its declarations: the three copies and the two zeroed arrays
StepCopy ==
  /\ pc = "copy"
  /\ velX0' = JsonCopy(velocityX)
  /\ velY0' = JsonCopy(velocityY)
  /\ s' = JsonCopy(density)
  /\ p' = ZeroGrid
  /\ div' = ZeroGrid
  /\ pc' = NextPc("copy")
  /\ done' = Append(done, "copy")
  /\ StepFrame
  /\ UNCHANGED <<grids, time, drawCalls>>

\* diffuse(velX0, velocityRef.current.x, visc, dt)
DiffuseVelX ==
  /\ pc = "diffuseVelX"
  /\ velX0' = Diffuse(velX0, velocityX, visc, dt)
  /\ pc' = NextPc("diffuseVelX")
  /\ done' = Append(done, "diffuseVelX")
  /\ StepFrame
  /\ UNCHANGED <<grids, time, velY0, s, p, div, drawCalls>>

\* diffuse(velY0, velocityRef.current.y, visc, dt)
DiffuseVelY ==
  /\ pc = "diffuseVelY"
  /\ velY0' = Diffuse(velY0, velocityY, visc, dt)
  /\ pc' = NextPc("diffuseVelY")
  /\ done' = Append(done, "diffuseVelY")
  /\ StepFrame
  /\ UNCHANGED <<grids, time, velX0, s, p, div, drawCalls>>

\* project(velX0, velY0, p, div)
Project1 ==
  /\ pc = "project1"
  /\ ProjectInto(Project(velX0, velY0, p, div), TRUE)
  /\ pc' = NextPc("project1")
  /\ done' = Append(done, "project1")
  /\ StepFrame
  /\ UNCHANGED <<grids, time, s, drawCalls>>

\* advect(velocityRef.current.x, velX0, velX0, velY0, dt)
AdvectVelX ==
  /\ pc = "advectVelX"
  /\ velocityX' = Advect(velocityX, velX0, velX0, velY0, dt)
  /\ pc' = NextPc("advectVelX")
  /\ done' = Append(done, "advectVelX")
  /\ StepFrame
  /\ UNCHANGED <<velocityY, density, time, locals, drawCalls>>

\* the second advect call along the x component the first has just written
AdvectVelYAlongNew ==
  /\ pc = "advectVelY"
  /\ velocityY' = Advect(velocityY, velY0, velocityX, velY0, dt)
  /\ pc' = NextPc("advectVelY")
  /\ done' = Append(done, "advectVelY")
  /\ StepFrame
  /\ UNCHANGED <<velocityX, density, time, locals, drawCalls>>

\* advect(velocityRef.current.y, velY0, velX0, velY0, dt)
AdvectVelY ==
  /\ pc = "advectVelY"
  /\ velocityY' = Advect(velocityY, velY0, velX0, velY0, dt)
  /\ pc' = NextPc("advectVelY")
  /\ done' = Append(done, "advectVelY")
  /\ StepFrame
  /\ UNCHANGED <<velocityX, density, time, locals, drawCalls>>

\* project(velocityRef.current.x, velocityRef.current.y, p, div)
Project2 ==
  /\ pc = "project2"
  /\ ProjectInto(Project(velocityX, velocityY, p, div), FALSE)
  /\ pc' = NextPc("project2")
  /\ done' = Append(done, "project2")
  /\ StepFrame
  /\ UNCHANGED <<density, time, velX0, velY0, s, drawCalls>>

\* diffuse(s, densityRef.current, diff, dt)
DiffuseDensity ==
  /\ pc = "diffuseDensity"
  /\ s' = Diffuse(s, density, diff, dt)
  /\ pc' = NextPc("diffuseDensity")
  /\ done' = Append(done, "diffuseDensity")
  /\ StepFrame
  /\ UNCHANGED <<grids, time, velX0, velY0, p, div, drawCalls>>

\* advect(densityRef.current, s, velocityRef.current.x, velocityRef.current.y, dt)
AdvectDensity ==
  /\ pc = "advectDensity"
  /\ density' = Advect(density, s, velocityX, velocityY, dt)
  /\ pc' = NextPc("advectDensity")
  /\ done' = Append(done, "advectDensity")
  /\ StepFrame
  /\ UNCHANGED <<velocityX, velocityY, time, locals, drawCalls>>

\* the fade loop, the last statement of step; step returns and its locals
\* are gone
DecayStep ==
  /\ pc = "decay"
  /\ density' = Decay(density)
  /\ velX0' = NoGrid /\ velY0' = NoGrid /\ s' = NoGrid /\ p' = NoGrid /\ div' = NoGrid
  /\ pc' = ReturnTo("decay")
  /\ done' = Append(done, "decay")
  /\ StepFrame
  /\ UNCHANGED <<velocityX, velocityY, time, drawCalls>>

\* a render that also fades the density it draws
RenderFading ==
  /\ pc = "render"
  /\ drawCalls' = RenderCalls(density, scrollProgress, canvas[1], canvas[2])
  /\ density' = Decay(density)
  /\ pc' = NextPc("render")
  /\ done' = Append(done, "render")
  /\ StepFrame
  /\ UNCHANGED <<velocityX, velocityY, time, locals>>

\* render(): the canvas is cleared and the visible cells are drawn
Render ==
  /\ pc = "render"
  /\ drawCalls' = RenderCalls(density, scrollProgress, canvas[1], canvas[2])
  /\ pc' = NextPc("render")
  /\ done' = Append(done, "render")
  /\ StepFrame
  /\ UNCHANGED <<grids, time, locals>>

\* the calls step makes and its own statements
StepBody ==
  \/ StepCopy
  \/ DiffuseVelX
  \/ DiffuseVelY
  \/ Project1
  \/ AdvectVelX
  \/ AdvectVelY
  \/ Project2
  \/ DiffuseDensity
  \/ AdvectDensity
  \/ DecayStep

(* ---------------------------------------------------------------------- *)
(* The component in the page                                               *)
(* ---------------------------------------------------------------------- *)

Next ==
  \/ Mount
  \/ SetScrollProgress
  \/ SetIntensity
  \/ Unmount
  \/ Resize
  \/ AnimateCall
  \/ AnimateFrame
  \/ AddForcesStep
  \/ StepBody
  \/ Render
  \/ RequestFrame
  \/ Listen

Spec == Init /\ [][Next]_vars

(* ---------------------------------------------------------------------- *)
(* A harness that calls addForces() and step(dt) on their own              *)
(* ---------------------------------------------------------------------- *)

\* the intensities and the time steps the harness calls with
HarnessIntensities == {(8 * Unit) \div 10, -40 * Unit, PInf, NInf}
HarnessDts == {0, Unit \div 10}

\* freshly initialised grids, nothing scheduled
HarnessInit ==
  /\ effect = "active"
  /\ intensity \in HarnessIntensities
  /\ scrollProgress = 0
  /\ window = <<1280, 720>>
  /\ canvas = window
  /\ listening = FALSE
  /\ velocityX = ZeroGrid /\ velocityY = ZeroGrid /\ density = ZeroGrid
  /\ time = 0 /\ lastTime = 0 /\ now = 0
  /\ animationFrameRef = 0
  /\ pending = {}
  /\ pc = "idle"
  /\ inEffect = FALSE
  /\ caller = "step"
  /\ dt = 0
  /\ velX0 = NoGrid /\ velY0 = NoGrid /\ s = NoGrid /\ p = NoGrid /\ div = NoGrid
  /\ drawCalls = << >>
  /\ done = << >>
  /\ lastEvent = "none"
  /\ densityBefore = ZeroGrid
  /\ calls = 0
  /\ twin = << >>
  /\ app = << >>

\* what a call from the harness leaves alone
HarnessFrame ==
  UNCHANGED <<effect, props, window, canvas, listening, grids, clock, animationFrameRef,
              pending, inEffect, caller, locals, drawCalls, twin, app>>

\* the harness calls addForces()
CallAddForces ==
  /\ pc = "idle" /\ caller = "step" /\ calls < MaxCalls
  /\ calls' = calls + 1
  /\ pc' = "addForces"
  /\ lastEvent' = "addForces"
  /\ done' = << >>
  /\ densityBefore' = density
  /\ UNCHANGED dt
  /\ HarnessFrame

\* the harness calls step(d)
CallStep ==
  /\ pc = "idle" /\ caller = "step" /\ calls < MaxCalls
  /\ calls' = calls + 1
  /\ \E d \in HarnessDts : dt' = d
  /\ pc' = "copy"
  /\ lastEvent' = "step"
  /\ done' = << >>
  /\ densityBefore' = density
  /\ HarnessFrame

HarnessNext ==
  \/ CallAddForces
  \/ CallStep
  \/ AddForcesStep
  \/ StepBody

HarnessSpec == HarnessInit /\ [][HarnessNext]_vars

(* ---------------------------------------------------------------------- *)
(* A long run: addForces() and step(0.016) in turn, frame after frame, at  *)
(* intensity 0.8                                                           *)
(* ---------------------------------------------------------------------- *)

\* dt = 0.016
FrameDt == (16 * Unit) \div 1000

LongInit ==
  /\ effect = "active"
  /\ intensity = (8 * Unit) \div 10
  /\ scrollProgress = 0
  /\ window = <<1280, 720>>
  /\ canvas = window
  /\ listening = FALSE
  /\ velocityX = ZeroGrid /\ velocityY = ZeroGrid /\ density = ZeroGrid
  /\ time = 0 /\ lastTime = 0 /\ now = 0
  /\ animationFrameRef = 0
  /\ pending = {}
  /\ pc = "idle"
  /\ inEffect = FALSE
  /\ caller = "long"
  /\ dt = FrameDt
  /\ velX0 = NoGrid /\ velY0 = NoGrid /\ s = NoGrid /\ p = NoGrid /\ div = NoGrid
  /\ drawCalls = << >>
  /\ done = << >>
  /\ lastEvent = "none"
  /\ densityBefore = ZeroGrid
  /\ calls = 0
  /\ twin = << >>
  /\ app = << >>

\* the frame's addForces()
LongAddForces ==
  /\ pc = "idle" /\ caller = "long"
  /\ calls < 2 * LongFrames /\ calls % 2 = 0
  /\ calls' = calls + 1
  /\ pc' = "addForces"
  /\ lastEvent' = "addForces"
  /\ done' = << >>
  /\ densityBefore' = density
  /\ UNCHANGED dt
  /\ HarnessFrame

\* the frame's step(0.016)
LongStep ==
  /\ pc = "idle" /\ caller = "long"
  /\ calls % 2 = 1
  /\ calls' = calls + 1
  /\ dt' = FrameDt
  /\ pc' = "copy"
  /\ lastEvent' = "step"
  /\ done' = << >>
  /\ densityBefore' = density
  /\ HarnessFrame

LongNext ==
  \/ LongAddForces
  \/ LongStep
  \/ AddForcesStep
  \/ StepBody

LongSpec == LongInit /\ [][LongNext]_vars

(* ---------------------------------------------------------------------- *)
(* Two runs side by side, fed the same frames                              *)
(* ---------------------------------------------------------------------- *)

\* the clock reading at which the second run starts
TwinOffsets == {1000, 7000}

\* the clock deltas a frame of the two runs is fed
TwinDeltas == {0} \cup ClockDeltas

\* Both runs freshly initialised, with the same intensity.  One run is the
\* state of the model; the other is parked in the record twin, with a later
\* clock and another canvas.  twin.phase tells whose turn it is, twin.owed is
\* the clock delta of the frame the first run has taken and the second has
\* not.
TwinInit ==
  /\ effect = "active"
  /\ intensity \in Intensities
  /\ scrollProgress = 0
  /\ window = <<1280, 720>>
  /\ canvas = window
  /\ listening = TRUE
  /\ velocityX = ZeroGrid /\ velocityY = ZeroGrid /\ density = ZeroGrid
  /\ time = 0 /\ lastTime = 0 /\ now = 0
  /\ animationFrameRef = 0
  /\ pending = {}
  /\ pc = "idle"
  /\ inEffect = FALSE
  /\ caller = "animate"
  /\ dt = 0
  /\ velX0 = NoGrid /\ velY0 = NoGrid /\ s = NoGrid /\ p = NoGrid /\ div = NoGrid
  /\ drawCalls = << >>
  /\ done = << >>
  /\ lastEvent = "none"
  /\ densityBefore = ZeroGrid
  /\ calls = 0
  /\ app = << >>
  /\ \E off \in TwinOffsets :
       twin = [velX |-> ZeroGrid, velY |-> ZeroGrid, density |-> ZeroGrid, time |-> 0,
               lastTime |-> off, canvas |-> <<640, 480>>, drawCalls |-> << >>,
               phase |-> "ready", owed |-> 0]

\* animate is called in the run that is the state, delta ms after its last
\* call
TwinAnimate(delta) ==
  /\ now' = lastTime + delta
  /\ dt' = DtOf(lastTime + delta, lastTime)
  /\ lastTime' = lastTime + delta
  /\ pending' = {}
  /\ pc' = "addForces"
  /\ done' = << >>
  /\ densityBefore' = density
  /\ lastEvent' = "animate"
  /\ UNCHANGED <<effect, props, window, canvas, listening, grids, time, animationFrameRef,
                 inEffect, caller, locals, drawCalls, calls, app>>

\* a frame of the first run, with any delta
TwinFirst ==
  /\ pc = "idle" /\ twin # << >> /\ twin.phase = "ready"
  /\ time < MaxFrames * TimeStep
  /\ \E delta \in TwinDeltas :
       /\ TwinAnimate(delta)
       /\ twin' = [twin EXCEPT !.phase = "first", !.owed = delta]

\* the same frame of the second run
TwinSecond ==
  /\ pc = "idle" /\ twin # << >> /\ twin.phase = "second"
  /\ TwinAnimate(twin.owed)
  /\ twin' = [twin EXCEPT !.phase = "both"]

\* the run that is the state and the parked run change places
TwinSwap ==
  /\ pc = "idle" /\ twin # << >> /\ twin.phase \in {"first", "both"}
  /\ velocityX' = twin.velX /\ velocityY' = twin.velY /\ density' = twin.density
  /\ time' = twin.time /\ lastTime' = twin.lastTime /\ now' = twin.lastTime
  /\ canvas' = twin.canvas /\ window' = twin.canvas
  /\ drawCalls' = twin.drawCalls
  /\ twin' = [velX |-> velocityX, velY |-> velocityY, density |-> density, time |-> time,
              lastTime |-> lastTime, canvas |-> canvas, drawCalls |-> drawCalls,
              phase |-> IF twin.phase = "first" THEN "second" ELSE "ready",
              owed |-> twin.owed]
  /\ UNCHANGED <<effect, props, listening, animationFrameRef, pending, pc, inEffect, caller,
                 dt, locals, hist, calls, app>>

TwinNext ==
  \/ TwinFirst
  \/ TwinSecond
  \/ TwinSwap
  \/ AddForcesStep
  \/ StepBody
  \/ Render
  \/ RequestFrame

TwinSpec == TwinInit /\ [][TwinNext]_vars

(* ---------------------------------------------------------------------- *)
(* The border cells of the component's 96 by 54 grid, frame after frame    *)
(*                                                                         *)
(* The three grids are kept at their border cells only, as functions from  *)
(* the border cells <<x, y>> to numbers.  What a frame does to a border    *)
(* cell does not depend on any interior cell: addForces adds at the cells  *)
(* it aims at, the loops of diffuse, advect and project run from 1 to      *)
(* width - 2 and from 1 to height - 2 and write no border cell, the fade   *)
(* multiplies every cell of the density by 0.995.                          *)
(* A run of the effect body starts the grids again from zero, as in        *)
(* BorderInit.                                                             *)
(* ---------------------------------------------------------------------- *)

\* the cells of a w by h grid in column 0 or w - 1 or in row 0 or h - 1
BorderCellsAt(w, h) ==
  {c \in (0 .. w - 1) \X (0 .. h - 1) : c[1] \in {0, w - 1} \/ c[2] \in {0, h - 1}}

\* initArrays() at the border cells
ZeroBorder == [c \in BorderCellsAt(GridW, GridH) |-> 0]

\* what addForces adds when the clock reads t and the intensity is amp, in
\* the order of its statements: the stream, then sample a of gyre k for
\* m = 6 k + a + 1
ForcingWrites(w, h, t, amp) ==
  <<[x |-> StreamXAt(w), y |-> StreamYAt(h, t),
     fx |-> StreamForce(amp),
     fy |-> FMulQ(FMulQ(StreamForce(amp), Sin(FMulQ(t, 5, 10)), Unit), 3, 10),
     amount |-> (8 * Unit) \div 10]>>
  \o [m \in 1 .. 18 |->
        [x |-> GyreXAt(w, (m - 1) \div 6, GyreAngle((m - 1) \div 6, (m - 1) % 6, t)),
         y |-> GyreYAt(h, (m - 1) \div 6, GyreAngle((m - 1) \div 6, (m - 1) % 6, t)),
         fx |-> FMulQ(FMulQ(amp,
                            -Sin(GyreAngle((m - 1) \div 6, (m - 1) % 6, t)), Unit), 15, 100),
         fy |-> FMulQ(FMulQ(amp,
                            Cos(GyreAngle((m - 1) \div 6, (m - 1) % 6, t)), Unit), 15, 100),
         amount |-> ((((m - 1) \div 6) + 1) * Unit) \div 4]]

\* one guarded write of addForces, as far as it lands on a border cell
AddAtBorder(b, wr) ==
  IF ForceGuardAt(GridW, GridH, wr.x, wr.y) /\ <<wr.x, wr.y>> \in DOMAIN b.density
  THEN [velX |-> [b.velX EXCEPT ![<<wr.x, wr.y>>] = FAdd(@, wr.fx)],
        velY |-> [b.velY EXCEPT ![<<wr.x, wr.y>>] = FAdd(@, wr.fy)],
        density |-> [b.density EXCEPT ![<<wr.x, wr.y>>] = AddDensity(@, wr.amount)]]
  ELSE b

RECURSIVE AddBorderFrom(_, _, _)
AddBorderFrom(b, wrs, m) ==
  IF m > Len(wrs) THEN b ELSE AddBorderFrom(AddAtBorder(b, wrs[m]), wrs, m + 1)

\* addForces at the border cells
BorderForces(b, t, amp) ==
  AddBorderFrom(b, ForcingWrites(GridW, GridH, t, amp), 1)

\* the fade at the border cells
BorderDecay(d) == [c \in DOMAIN d |-> FMulQ(d[c], 995, 1000)]

\* the component after its effect body has run, App's intensity
BorderInit ==
  /\ effect = "active"
  /\ intensity = (8 * Unit) \div 10
  /\ scrollProgress = 0
  /\ window = <<1280, 720>>
  /\ canvas = window
  /\ listening = TRUE
  /\ velocityX = ZeroBorder /\ velocityY = ZeroBorder /\ density = ZeroBorder
  /\ time = 0 /\ lastTime = 0 /\ now = 0
  /\ animationFrameRef = 0
  /\ pending = {}
  /\ pc = "idle"
  /\ inEffect = FALSE
  /\ caller = "border"
  /\ dt = 0
  /\ velX0 = NoGrid /\ velY0 = NoGrid /\ s = NoGrid /\ p = NoGrid /\ div = NoGrid
  /\ drawCalls = << >>
  /\ done = << >>
  /\ lastEvent = "none"
  /\ densityBefore = NoGrid
  /\ calls = 0
  /\ twin = << >>
  /\ app = << >>

BorderFrame ==
  UNCHANGED <<effect, props, window, canvas, listening, lastTime, now, animationFrameRef,
              pending, inEffect, caller, dt, locals, drawCalls, done, densityBefore, twin,
              app>>

\* addForces() of a frame
BorderAddForces ==
  /\ caller = "border" /\ pc = "idle" /\ calls < MaxTicks
  /\ calls' = calls + 1
  /\ time' = time + TimeStep
  /\ velocityX' = BorderForces([velX |-> velocityX, velY |-> velocityY, density |-> density],
                               time + TimeStep, intensity).velX
  /\ velocityY' = BorderForces([velX |-> velocityX, velY |-> velocityY, density |-> density],
                               time + TimeStep, intensity).velY
  /\ density' = BorderForces([velX |-> velocityX, velY |-> velocityY, density |-> density],
                             time + TimeStep, intensity).density
  /\ pc' = "copy"
  /\ lastEvent' = "addForces"
  /\ BorderFrame

\* step(dt) of the frame: its solver calls write no border cell, its last
\* loop fades the density
BorderStep ==
  /\ caller = "border" /\ pc = "copy"
  /\ density' = BorderDecay(density)
  /\ pc' = "idle"
  /\ lastEvent' = "step"
  /\ UNCHANGED <<velocityX, velocityY, time, calls>>
  /\ BorderFrame

BorderNext ==
  \/ BorderAddForces
  \/ BorderStep

BorderSpec == BorderInit /\ [][BorderNext]_vars

(* ---------------------------------------------------------------------- *)
(* The forcing clock on its own: addForces called tick after tick on the   *)
(* component's 96 by 54 grid                                               *)
(* ---------------------------------------------------------------------- *)

\* freshly initialised state, nothing scheduled; only the clock will move
ForcingInit ==
  /\ effect = "active"
  /\ intensity = (8 * Unit) \div 10
  /\ scrollProgress = 0
  /\ window = <<1280, 720>>
  /\ canvas = window
  /\ listening = FALSE
  /\ velocityX = NoGrid /\ velocityY = NoGrid /\ density = NoGrid
  /\ time = 0 /\ lastTime = 0 /\ now = 0
  /\ animationFrameRef = 0
  /\ pending = {}
  /\ pc = "idle"
  /\ inEffect = FALSE
  /\ caller = "clock"
  /\ dt = 0
  /\ velX0 = NoGrid /\ velY0 = NoGrid /\ s = NoGrid /\ p = NoGrid /\ div = NoGrid
  /\ drawCalls = << >>
  /\ done = << >>
  /\ lastEvent = "none"
  /\ densityBefore = NoGrid
  /\ calls = 0
  /\ twin = << >>
  /\ app = << >>

\* addForces(): `time += 0.08`; the cells it then writes are
\* ForcedCells(GridW, GridH, time)
ForcingTick ==
  /\ caller = "clock"
  /\ calls < MaxTicks
  /\ calls' = calls + 1
  /\ time' = time + TimeStep
  /\ lastEvent' = "addForces"
  /\ UNCHANGED <<effect, props, window, canvas, listening, grids, lastTime, now,
                 animationFrameRef, pending, pc, inEffect, caller, dt, locals, drawCalls,
                 done, densityBefore, twin, app>>

ForcingNext == ForcingTick

ForcingSpec == ForcingInit /\ [][ForcingNext]_vars

(* ---------------------------------------------------------------------- *)
(* GeometricCompassRose: the other canvas effect, with the same cleanup.   *)
(* Its refs take the variables of the same name: time is timeRef,          *)
(* lastTime is lastFrameTime, listening stands for its resize and          *)
(* mousemove listeners, which are added and removed together.              *)
(* The same actions run the two other canvas loops of that shape, told     *)
(* apart by caller: "particles" is NauticalParticleField (limited to       *)
(* 1000 / fpsTarget ms, its effect calls animate() itself, time is its     *)
(* frame counter), "rose" is components/GeometricCompassRose.tsx (no       *)
(* limiter, its effect calls render() itself).                             *)
(* ---------------------------------------------------------------------- *)

\* the canvas loops: part_005, NauticalParticleField, GeometricCompassRose.tsx
Loops == {"compass", "particles", "rose"}

\* milliseconds between two animation frames: under the 16 ms of the compass,
\* between it and the 1000 / 60 ms of the particle field, and over both
CompassDeltas == {10, 16, 60}

\* const fpsTarget = 60
fpsTarget == 60

\* a loop without its frame limiter
TooSoonNever(c, delta) == FALSE

\* the test that makes a callback of loop c return early, delta ms after the
\* last frame drawn: `deltaTime < 16`, `deltaTime < 1000 / fpsTarget`
TooSoon(c, delta) ==
  \/ c = "compass" /\ delta < 16
  \/ c = "particles" /\ delta * fpsTarget < 1000

\* what the compass never touches
CompassFrame == UNCHANGED <<intensity, grids, inEffect, caller, dt, locals, done,
                            densityBefore, aside>>

CompassInit ==
  /\ Unmounted
  /\ intensity = 0
  /\ caller \in Loops
  /\ twin = << >>
  /\ app = << >>

\* React runs the effect after the first commit
CompassMount ==
  /\ caller \in Loops /\ effect = "none" /\ pc = "idle"
  /\ effect' = "active"
  /\ pc' = "compassEffect"
  /\ lastEvent' = "mount"
  /\ UNCHANGED <<scrollProgress, window, canvas, listening, clock, animationFrameRef,
                 pending, drawCalls>>
  /\ CompassFrame

\* a re-run of the effect that nothing cleans up before
CompassSetScrollNoCleanup ==
  /\ caller \in Loops /\ effect = "active" /\ pc = "idle"
  /\ \E v \in ScrollValues \ {scrollProgress} : scrollProgress' = v
  /\ pc' = "compassEffect"
  /\ lastEvent' = "scrollProgress"
  /\ UNCHANGED <<effect, window, canvas, clock, drawCalls, listening, animationFrameRef,
                 pending>>
  /\ CompassFrame

\* A new scrollProgress prop makes a new animate callback, which the effect
\* depends on: React runs the cleanup, and then the effect again
CompassSetScroll ==
  /\ caller \in Loops /\ effect = "active" /\ pc = "idle"
  /\ \E v \in ScrollValues \ {scrollProgress} : scrollProgress' = v
  /\ Cleanup
  /\ pc' = "compassEffect"
  /\ lastEvent' = "scrollProgress"
  /\ UNCHANGED <<effect, window, canvas, clock, drawCalls>>
  /\ CompassFrame

\* the effect body: resize(), the listeners, the first frame requested. The
\* particle field calls animate() for it, whose currentTime = 0 is never
\* after lastFrameTime, so that call only requests; its closure's frame
\* counter starts at 0. The rose calls render(), which draws and requests.
CompassEffect ==
  /\ pc = "compassEffect"
  /\ canvas' = window
  /\ listening' = TRUE
  /\ animationFrameRef' = NewHandle
  /\ pending' = pending \cup {NewHandle}
  /\ pc' = "idle"
  /\ drawCalls' = IF caller = "rose" THEN <<[t |-> now, sp |-> scrollProgress]>> ELSE << >>
  /\ time' = IF caller = "particles" THEN 0 ELSE time
  /\ UNCHANGED <<effect, scrollProgress, window, lastTime, now, lastEvent>>
  /\ CompassFrame

\* the component unmounts: the cleanup runs and nothing follows it
CompassUnmount ==
  /\ caller \in Loops /\ effect = "active" /\ pc = "idle"
  /\ effect' = "cleaned"
  /\ Cleanup
  /\ lastEvent' = "unmount"
  /\ UNCHANGED <<scrollProgress, window, canvas, clock, pc, drawCalls>>
  /\ CompassFrame

\* the handle of a request made when the frames of pend are pending
HandleAfter(pend) == CHOOSE h \in 1 .. Cardinality(pend) + 1 : h \notin pend

\* animate(currentTime) run by the browser: too soon after the last frame
\* drawn it only requests the next frame; otherwise it redraws and requests.
\* The compass sets timeRef to currentTime, the particle field counts the
\* frame (time++), the rose keeps no time.
CompassAnimate ==
  /\ caller \in Loops /\ pc = "idle"
  /\ \E h \in pending, delta \in CompassDeltas :
       /\ now + delta <= MaxNow
       /\ now' = now + delta
       /\ IF TooSoon(caller, now + delta - lastTime)
          THEN UNCHANGED <<lastTime, time, drawCalls>>
          ELSE /\ lastTime' = IF caller = "rose" THEN lastTime ELSE now + delta
               /\ time' = IF caller = "compass" THEN now + delta
                          ELSE IF caller = "particles" THEN time + 1 ELSE time
               /\ drawCalls' = <<[t |-> now + delta, sp |-> scrollProgress]>>
       /\ animationFrameRef' = HandleAfter(pending \ {h})
       /\ pending' = (pending \ {h}) \cup {HandleAfter(pending \ {h})}
  /\ lastEvent' = "animate"
  /\ UNCHANGED <<effect, scrollProgress, window, canvas, listening, pc>>
  /\ CompassFrame

\* the window is resized: the compass's resize sets the canvas size, as
\* handleResize does
CompassResize == caller \in Loops /\ Resize

\* the mouse moves while handleMouseMove is registered (the pointer position
\* it stores is not part of the state)
CompassMouseMove ==
  /\ caller \in {"compass", "particles"} /\ pc = "idle" /\ listening
  /\ lastEvent' = "mousemove"
  /\ UNCHANGED <<effect, scrollProgress, window, canvas, listening, clock,
                 animationFrameRef, pending, pc, drawCalls>>
  /\ CompassFrame

CompassNext ==
  \/ CompassMount
  \/ CompassSetScroll
  \/ CompassEffect
  \/ CompassUnmount
  \/ CompassAnimate
  \/ CompassResize
  \/ CompassMouseMove

\* either canvas effect, through its life
TeardownInit == Init \/ CompassInit

TeardownNext ==
  \/ caller = "animate" /\ Next
  \/ CompassNext

TeardownSpec == TeardownInit /\ [][TeardownNext]_vars

(* ---------------------------------------------------------------------- *)
(* App: the loading flag, the intro sequence, the section triggers         *)
(*                                                                         *)
(* app is a record here: loading, activeCard (0 for null, else the card's  *)
(* position), isExpanded, activeSectionIndex are App's state; timelines    *)
(* and exits count the intro timelines and the exit tweens gsap is         *)
(* running; triggers is the list of ScrollTriggers created so far; entered *)
(* is the element of the trigger whose callback ran last; clicks counts    *)
(* the card clicks.  scrollProgress is App's scrollProgress state.  gsap   *)
(* and ScrollTrigger are a library: when a tween completes and when a      *)
(* trigger calls back is the environment's choice.                         *)
(* ---------------------------------------------------------------------- *)

\* the card clicks of a run
MaxClicks == 2

\* the ids of the story cards, in order
STORY_CARDS == <<"01", "02", "03", "04">>

\* cardsRef.current once App has rendered: the div of each card, at the
\* card's index
cardsRef == [k \in 1 .. Len(STORY_CARDS) |-> STORY_CARDS[k]]

\* the progress values the global trigger reports
ProgressValues == {0, Unit \div 2, Unit}

CardSectionOff(index) == index + 2

\* the section a card's trigger sets, index counted from 0
CardSection(index) == index + 1

\* the triggers the animations effect creates, in order: hero, one per
\* card, footer, and the global progress trigger
SectionTriggers ==
  <<[trigger |-> "hero", section |-> 0, progress |-> FALSE]>>
    \o [k \in 1 .. Len(cardsRef) |->
          [trigger |-> cardsRef[k], section |-> CardSection(k - 1), progress |-> FALSE]]
    \o <<[trigger |-> "footer", section |-> 5, progress |-> FALSE]>>
    \o <<[trigger |-> "body", section |-> 0 - 1, progress |-> TRUE]>>

AnimationsEffectAlways(loading, triggers) == triggers \o SectionTriggers

\* the animations effect: nothing while loading, else the triggers
AnimationsEffect(loading, triggers) ==
  IF loading THEN triggers ELSE triggers \o SectionTriggers

\* the effect of IntroSequence: one more timeline; nothing stops the
\* earlier ones
IntroEffect(timelines) == timelines + 1

\* App renders again: while loading, IntroSequence gets a new onComplete
\* and its effect runs again
Rerender(a) ==
  IF a.loading THEN [a EXCEPT !.timelines = IntroEffect(@)] ELSE a

\* the effect on activeCard: setIsExpanded(!!activeCard), a render when it
\* changes the state
SyncExpanded(a) ==
  IF a.isExpanded = (a.activeCard # 0)
    THEN a
    ELSE Rerender([a EXCEPT !.isExpanded = (a.activeCard # 0)])

\* setLoading(v) and the render it causes: the animations effect runs
\* when loading has changed
SetLoading(a, v) ==
  IF a.loading = v
    THEN a
    ELSE [a EXCEPT !.loading = v, !.triggers = AnimationsEffect(v, a.triggers)]

AppFrame ==
  UNCHANGED <<effect, intensity, window, canvas, listening, grids, time, lastTime, now,
              animationFrameRef, pending, pc, inEffect, caller, dt, locals, drawCalls,
              done, densityBefore, calls, twin>>

\* App and IntroSequence after their first render and effects
AppInit ==
  /\ Unmounted
  /\ intensity = (8 * Unit) \div 10
  /\ caller = "app"
  /\ twin = << >>
  /\ app = [loading |-> TRUE, activeCard |-> 0, isExpanded |-> FALSE,
            activeSectionIndex |-> 0, timelines |-> IntroEffect(0), exits |-> 0,
            triggers |-> AnimationsEffect(TRUE, << >>), entered |-> "none",
            clicks |-> 0]

\* an intro timeline completes: its onComplete starts the exit tween
TimelineComplete ==
  /\ caller = "app" /\ app.timelines > 0
  /\ app' = [app EXCEPT !.timelines = @ - 1, !.exits = @ + 1]
  /\ lastEvent' = "timelineComplete"
  /\ UNCHANGED scrollProgress
  /\ AppFrame

\* an exit tween completes: onComplete is setLoading(false)
ExitComplete ==
  /\ caller = "app" /\ app.exits > 0
  /\ app' = SetLoading([app EXCEPT !.exits = @ - 1], FALSE)
  /\ lastEvent' = "exitComplete"
  /\ UNCHANGED scrollProgress
  /\ AppFrame

\* a click on a card
HandleCardClick ==
  /\ caller = "app" /\ app.clicks < MaxClicks
  /\ \E index \in 0 .. Len(cardsRef) - 1 :
       app' = SyncExpanded(Rerender([app EXCEPT !.activeCard = index + 1,
                                                !.clicks = @ + 1]))
  /\ lastEvent' = "cardClick"
  /\ UNCHANGED scrollProgress
  /\ AppFrame

\* the open card is closed
CloseCard ==
  /\ caller = "app" /\ app.activeCard # 0
  /\ app' = SyncExpanded(Rerender([app EXCEPT !.activeCard = 0]))
  /\ lastEvent' = "close"
  /\ UNCHANGED scrollProgress
  /\ AppFrame

\* the callback of a section trigger
SectionCallback(k) ==
  /\ ~app.triggers[k].progress
  /\ app' = Rerender([app EXCEPT !.activeSectionIndex = app.triggers[k].section,
                                 !.entered = app.triggers[k].trigger])

OnEnter ==
  /\ caller = "app"
  /\ \E k \in 1 .. Len(app.triggers) : SectionCallback(k)
  /\ lastEvent' = "onEnter"
  /\ UNCHANGED scrollProgress
  /\ AppFrame

OnEnterBack ==
  /\ caller = "app"
  /\ \E k \in 1 .. Len(app.triggers) : SectionCallback(k)
  /\ lastEvent' = "onEnterBack"
  /\ UNCHANGED scrollProgress
  /\ AppFrame

\* the global trigger reports the scroll progress
OnUpdate ==
  /\ caller = "app"
  /\ \E k \in 1 .. Len(app.triggers) : app.triggers[k].progress
  /\ \E v \in ProgressValues \ {scrollProgress} : scrollProgress' = v
  /\ app' = Rerender(app)
  /\ lastEvent' = "onUpdate"
  /\ AppFrame

AppNext ==
  \/ TimelineComplete
  \/ ExitComplete
  \/ HandleCardClick
  \/ CloseCard
  \/ OnEnter
  \/ OnEnterBack
  \/ OnUpdate

AppSpec == AppInit /\ [][AppNext]_vars

(* ---------------------------------------------------------------------- *)
(* Properties                                                              *)
(* ---------------------------------------------------------------------- *)

\* the sub-steps of the solver in the order the specification gives them
SolverOrder ==
  <<"addForces", "diffuseVelX", "diffuseVelY", "project1", "advectVelX", "advectVelY",
    "project2", "diffuseDensity", "advectDensity", "decay">>

IsSolverStep(x) == \E k \in 1 .. Len(SolverOrder) : SolverOrder[k] = x

\* C1: in every frame the sub-steps run in the order addForces, diffuse
\* velocity X, diffuse velocity Y, project, advect velocity X, advect
\* velocity Y, project, diffuse density, advect density, decay: what a
\* running frame has done is always a prefix of that order, and a frame that
\* has reached render has done all of it.
C1_StepOrder ==
  LET ran == SelectSeq(done, IsSolverStep)
  IN /\ Len(ran) <= Len(SolverOrder)
     /\ ran = SubSeq(SolverOrder, 1, Len(ran))
     /\ (pc \in {"render", "request", "listen"} \/ (pc = "idle" /\ done # << >>))
          => ran = SolverOrder

\* C1 witness: the second frame of a run of the effect has finished
C1_Witness ==
  /\ pc = "idle" /\ effect = "active" /\ time = 2 * TimeStep
  /\ done = StepOrder
  /\ density # ZeroGrid

\* C2: every cell of the density grid is in [0, 1] in every state
C2_DensityRange ==
  \A i \in Cols, j \in Rows : 0 <= density[i][j] /\ density[i][j] <= Unit

\* C2 witness: after forcing with an infinite intensity and a step, a cell
\* the Math.min has held at 1 is still above 0.9
C2_Witness ==
  /\ pc = "idle" /\ lastEvent = "step" /\ intensity = PInf
  /\ MaxOf(densityBefore) = Unit
  /\ MaxOf(density) > (9 * Unit) \div 10

\* the velocity arrays the advect call at pc traces with
AdvectVelocity ==
  IF pc = "advectDensity" THEN [x |-> velocityX, y |-> velocityY]
  ELSE [x |-> velX0, y |-> velY0]

AdvectPcs == {"advectVelX", "advectVelY", "advectDensity"}

\* a clamped coordinate: in [0.5, n - 1.5]
Clamped(x, n) == Unit \div 2 <= x /\ x <= Num(n) - (3 * Unit) \div 2

\* what C3 says of one cell, given what advect computes for it
ReadsInRange(ix) ==
  /\ AdvectReads(ix) \subseteq Cols \X Rows
  /\ IsNaN(ix.x) \/ Clamped(ix.x, width)
  /\ IsNaN(ix.y) \/ Clamped(ix.y, height)
  /\ AdvectReads(ix) = {} <=> (IsNaN(ix.x) \/ IsNaN(ix.y))

\* C3: whatever the velocities are, NaN and the infinities included, every
\* index pair an advect call reads is in [0, W-1] x [0, H-1]; a coordinate
\* that is a number is clamped to [0.5, W-1.5] (or H), and a cell whose
\* coordinate is NaN reads nothing.
C3_AdvectInRange ==
  pc \in AdvectPcs =>
    \A i \in 1 .. width - 2, j \in 1 .. height - 2 :
      ReadsInRange(AdvectIdx(AdvectVelocity.x, AdvectVelocity.y, dt, i, j))

\* the coordinates advect computes at the interior cells
AdvectCoords ==
  {AdvectIdx(AdvectVelocity.x, AdvectVelocity.y, dt, i, j) :
     i \in 1 .. width - 2, j \in 1 .. height - 2}

\* C3 witness: an advect call in which one cell's coordinate is NaN (the
\* cell reads nothing) and another cell reads at the upper clamp
C3_Witness ==
  /\ pc \in AdvectPcs
  /\ \E ix \in AdvectCoords : IsNaN(ix.x) \/ IsNaN(ix.y)
  /\ \E ix \in AdvectCoords :
       AdvectGuard(ix) /\ ix.x = Num(width) - (3 * Unit) \div 2

\* C4 as stated: with intensity 0 the total density after a frame's step is
\* never more than it was when the frame began
C4_TotalNonIncreasing ==
  (intensity = 0 /\ pc = "render") => Total(density) <= Total(densityBefore)

\* C5: after step(dt) called without addForces, the largest density is at
\* most 0.995 times the largest density before the call
C5_MaxDecays ==
  (pc = "idle" /\ lastEvent = "step") =>
    1000 * MaxOf(density) <= 995 * MaxOf(densityBefore)

\* C5 witness: a step with dt = 0.1 has moved density through a velocity
\* field
C5_Witness ==
  /\ pc = "idle" /\ lastEvent = "step" /\ dt = Unit \div 10
  /\ MaxOf(densityBefore) > 0
  /\ velocityX # ZeroGrid
  /\ density # Decay(densityBefore)

\* C6: two runs that start from the same grids and are fed the same clock
\* deltas and the same intensity have the same velocity and density grids
\* (and forcing clock) after every frame, whatever their clock readings and
\* canvas sizes are
C6_SameGrids ==
  (twin # << >> /\ twin.phase = "ready") =>
    /\ velocityX = twin.velX
    /\ velocityY = twin.velY
    /\ density = twin.density
    /\ time = twin.time

\* C6 witness: both runs have taken two frames, the last with dt > 0, at
\* different clock readings
C6_Witness ==
  /\ twin # << >> /\ twin.phase = "ready"
  /\ time = 2 * TimeStep /\ dt > 0
  /\ twin.lastTime # lastTime
  /\ twin.canvas # canvas
  /\ velocityX # ZeroGrid /\ density # ZeroGrid

\* C7: render changes none of velocityX, velocityY, density, and a render
\* of the state it leaves would issue the draw calls it has just issued
C7_RenderPure ==
  [][pc = "render" =>
       /\ velocityX' = velocityX /\ velocityY' = velocityY /\ density' = density
       /\ RenderCalls(density', scrollProgress', canvas'[1], canvas'[2]) = drawCalls']_vars

\* C7 witness: render has just drawn at least one disc
C7_Witness == pc = "request" /\ Len(drawCalls) > 0 /\ density # ZeroGrid

\* C8: once the effect has run, the three grids have width columns of height
\* rows each (the model's W and H), and a resize of the window changes no
\* grid: the handler only gives the canvas the window's size
C8_GridsFixed ==
  /\ [](effect # "none" => IsGrid(velocityX) /\ IsGrid(velocityY) /\ IsGrid(density))
  /\ [][window' # window =>
          /\ UNCHANGED grids
          /\ listening => canvas' = window']_vars

\* C8 witness: the handler has run on grids a frame has written
C8_Witness ==
  /\ lastEvent = "resize" /\ listening
  /\ canvas = <<640, 480>>
  /\ density # ZeroGrid /\ velocityX # ZeroGrid

\* C9 as stated: while the effect is mounted, a change of the scrollProgress
\* or intensity prop leaves the grids as they are
C9_CreatedOnce ==
  [][(effect = "active" /\ (scrollProgress' # scrollProgress \/ intensity' # intensity))
       => UNCHANGED grids]_vars

\* the border of the grid
Border(i, j) == i \in Cols /\ j \in Rows /\ ~Interior(i, j)

SolverPcs ==
  {"diffuseVelX", "diffuseVelY", "project1", "advectVelX", "advectVelY", "project2",
   "diffuseDensity", "advectDensity"}

\* every border cell of every array is in the next state what it is now
BorderKept ==
  \A i \in Cols, j \in Rows :
    Border(i, j) =>
      /\ velocityX'[i][j] = velocityX[i][j]
      /\ velocityY'[i][j] = velocityY[i][j]
      /\ density'[i][j] = density[i][j]
      /\ velX0'[i][j] = velX0[i][j]
      /\ velY0'[i][j] = velY0[i][j]
      /\ s'[i][j] = s[i][j]
      /\ p'[i][j] = p[i][j]
      /\ div'[i][j] = div[i][j]

\* C10: a diffuse, advect or project call leaves every border cell of every
\* array as it was
C10_BorderUntouched == [][(pc \in SolverPcs) => BorderKept]_vars

\* C10 witness: the calls of a frame have run and have written interior
\* cells: the pressure is not zero and advection has moved the density
C10_Witness ==
  /\ pc = "decay" /\ dt > 0
  /\ p # ZeroGrid
  /\ density # s
  /\ \E i \in Cols, j \in Rows : Border(i, j) /\ Interior(IF i = 0 THEN 1 ELSE i - 1, j)
                                   /\ density[IF i = 0 THEN 1 ELSE i - 1][j] > 0

\* the interior of a w by h grid
InteriorAt(w, h, c) == 1 <= c[1] /\ c[1] <= w - 2 /\ 1 <= c[2] /\ c[2] <= h - 2

\* C11: at every value of the forcing clock, every cell addForces writes on
\* the 96 by 54 grid (the stream cell and each gyre sample its guard lets
\* through) is an interior cell, 1 <= x <= W-2 and 1 <= y <= H-2
C11_ForcingInterior ==
  (caller = "clock" /\ lastEvent = "addForces") =>
    \A c \in ForcedCells(GridW, GridH, time) : InteriorAt(GridW, GridH, c)

\* C11 witness: a tick at which every guard passes and the outermost gyre
\* writes in the column farthest to the right it ever reaches
C11_Witness ==
  /\ caller = "clock" /\ lastEvent = "addForces"
  /\ ForcedCells(GridW, GridH, time) = ForcingPoints(GridW, GridH, time)
  /\ \E c \in ForcedCells(GridW, GridH, time) : c[1] = 90

\* C12 as stated: when the first project call of a step has returned, the
\* divergence of the field it has left (velX0, velY0) is at every interior
\* cell no larger in magnitude than the divergence the call computed for the
\* field it was given, which it has left in div
C12_DivergenceReduced ==
  (pc = "advectVelX" /\ caller = "animate") =>
    \A i \in 1 .. width - 2, j \in 1 .. height - 2 :
      Abs(DivCell(velX0, velY0, i, j)) <= Abs(div[i][j])

\* C13 as stated: after one addForces call and then one step call on zeroed
\* grids, every cell whose density is not zero is within three cells of the
\* stream cell
C13_ForcingLocal ==
  (caller = "step" /\ pc = "idle" /\ calls = 2 /\ lastEvent = "step" /\ time = TimeStep) =>
    \A i \in Cols, j \in Rows :
      density[i][j] # 0 => Abs(i - StreamX) <= 3 /\ Abs(j - StreamY(time)) <= 3

\* the statements of a frame that write a grid
GridWriters ==
  {"addForces", "advectVelX", "advectVelY", "project2", "advectDensity", "decay"}

\* the runs of the effect body, whose initArrays() creates the grids
EffectRuns == {"mount", "scrollProgress", "intensity"}

\* the number of times x occurs in the sequence q
Count(q, x) == Cardinality({k \in 1 .. Len(q) : q[k] = x})

\* C14: a frame that has finished has run every statement of step once, then
\* render once, then one request; the request adds one callback to those
\* pending; a frame begins only when none is running; and apart from the
\* effect body, whose initArrays() creates the grids, only a statement of the
\* running frame changes a grid
C14_OneFramePerCallback ==
  /\ []((pc = "idle" /\ done # << >>) =>
          /\ done = StepOrder
          /\ \A x \in {"copy", "decay", "render", "request"} : Count(done, x) = 1)
  /\ [][(pc = "request") => Cardinality(pending') = Cardinality(pending) + 1]_vars
  /\ [][(pc' = "addForces") => pc \in {"idle", "animate"}]_vars
  /\ [][(grids' # grids) =>
          \/ pc \in GridWriters /\ pc' = NextPc(pc)
          \/ pc = "idle" /\ lastEvent' \in EffectRuns]_vars

\* C14 witness: a frame run by an animation-frame callback has finished: it
\* has drawn, and the one callback it has requested is pending
C14_Witness ==
  /\ pc = "idle" /\ lastEvent = "animate" /\ ~inEffect /\ listening
  /\ done = StepOrder
  /\ time = 2 * TimeStep
  /\ drawCalls # << >>
  /\ pending = {animationFrameRef}

\* the statements of step
StepPcs ==
  {"copy", "diffuseVelX", "diffuseVelY", "project1", "advectVelX", "advectVelY",
   "project2", "diffuseDensity", "advectDensity", "decay"}

\* C15: the dt of every call step(dt) that animate makes is at most 0.1
\* seconds, and (the clock of the model never runs backwards) at least 0
C15_DtBounds ==
  (caller = "animate" /\ pc \in StepPcs) => 0 <= dt /\ dt <= Unit \div 10

\* C15 witness: step is entered 150 ms after the last frame, with dt cut to
\* 0.1
C15_Witness ==
  /\ caller = "animate" /\ pc = "copy" /\ twin = << >>
  /\ dt = Unit \div 10
  /\ lastTime = now /\ now >= 150
  /\ time = 2 * TimeStep

\* the cells of the discs on the canvas
DrawnCells == {<<drawCalls[k].i, drawCalls[k].j>> : k \in 1 .. Len(drawCalls)}

\* the palette index the rule of C16 gives cell (i, j) at density d <= 1
RuleIndex(d, i, j) ==
  IF 10 * d > 6 * Unit /\ (i + j) % 7 = 0 THEN 2 ELSE ((5 * d) \div Unit) % 5

\* C16: when render has returned, a disc has been drawn for cell (i, j) if
\* and only if d = min(density, 1) is above 0.01, and the colour of each disc
\* is palette entry 2 when d > 0.6 and (i + j) mod 7 = 0 and palette entry
\* floor(5 d) mod 5 otherwise, an index in 0 .. 4
C16_RenderRule ==
  pc = "request" =>
    /\ \A i \in Cols, j \in Rows :
         <<i, j>> \in DrawnCells <=>
           100 * (IF density[i][j] < Unit THEN density[i][j] ELSE Unit) > Unit
    /\ \A k \in 1 .. Len(drawCalls) :
         LET c == drawCalls[k]
             d == IF density[c.i][c.j] < Unit THEN density[c.i][c.j] ELSE Unit
         IN /\ RuleIndex(d, c.i, c.j) \in 0 .. 4
            /\ c.rgb = nauticalColors[RuleIndex(d, c.i, c.j)]

\* C16 witness: render has drawn a gold disc at a cell with (i + j) mod 7 = 0,
\* a disc of another colour at a cell above 0.6, and no disc at a cell whose
\* density is above 0 and not above 0.01
C16_Witness ==
  /\ pc = "request"
  /\ \E k \in 1 .. Len(drawCalls) :
       /\ (drawCalls[k].i + drawCalls[k].j) % 7 = 0
       /\ 10 * density[drawCalls[k].i][drawCalls[k].j] > 6 * Unit
       /\ drawCalls[k].rgb = <<212, 175, 55>>
  /\ \E k \in 1 .. Len(drawCalls) :
       /\ 10 * density[drawCalls[k].i][drawCalls[k].j] > 6 * Unit
       /\ drawCalls[k].rgb # <<212, 175, 55>>
  /\ \E i \in Cols, j \in Rows :
       density[i][j] > 0 /\ <<i, j>> \notin DrawnCells

\* the statements of a frame in which addForces, step or render runs
FramePcs == {"addForces", "render"} \cup StepPcs

\* C17: whenever addForces, step or render is about to run or running, the
\* three grids are allocated (width columns of height rows); and the first
\* frame of a run of the effect, which the effect body calls itself, begins
\* on the zeroed grids initArrays has just made
C17_InitBeforeFrames ==
  /\ (pc \in FramePcs \cup {"animate"}) =>
        IsGrid(velocityX) /\ IsGrid(velocityY) /\ IsGrid(density)
  /\ (inEffect /\ pc \in {"animate", "addForces"}) =>
        velocityX = ZeroGrid /\ velocityY = ZeroGrid /\ density = ZeroGrid

\* C17 witness: the first addForces of a mount is about to run
C17_Witness ==
  /\ pc = "addForces" /\ inEffect /\ effect = "active"
  /\ lastEvent = "animate"
  /\ density = ZeroGrid /\ time = 0
  /\ velX0 = NoGrid

\* C18: for either canvas effect: after the cleanup of an unmount no frame
\* is pending and no listener is registered, and from then on nothing is
\* stepped, drawn or resized; when a dependency change has run the cleanup,
\* no frame is pending and no listener is registered until the effect's new
\* run makes its own; and the only frame ever pending is the one the ref
\* names, the one the cleanup cancels
C18_CleanupStops ==
  /\ [](effect = "cleaned" => pending = {} /\ ~listening)
  /\ [][(effect = "cleaned") => UNCHANGED <<grids, time, canvas, drawCalls>>]_vars
  /\ [][(lastEvent' \in {"scrollProgress", "intensity"} /\ lastEvent' # lastEvent)
          => pending' = {} /\ ~listening']_vars
  /\ [](pending \subseteq {animationFrameRef})

\* C18 witness: the compass has been unmounted after a frame it has drawn,
\* and the window has been resized since
C18_Witness ==
  /\ caller = "compass" /\ effect = "cleaned"
  /\ lastEvent = "resize"
  /\ drawCalls # << >> /\ canvas # window
  /\ animationFrameRef # 0

\* C19 as stated: while the component stays mounted the forcing clock never
\* decreases: a step either leaves it as it is or, in addForces, advances it
\* by 0.08
C19_ClockMonotonic ==
  [][(effect = "active" /\ effect' = "active") =>
       \/ time' = time
       \/ pc = "addForces" /\ time' = time + TimeStep]_vars

\* C20: when step has made its declarations, the five scratch arrays are
\* the copies of the grids and two zeroed arrays, whatever an earlier call
\* has left in them; and the second project call of a step returns what it
\* would return with freshly zeroed p and div in place of the ones the first
\* call has written
C20_ScratchFresh ==
  /\ (pc = "diffuseVelX") =>
        /\ velX0 = JsonCopy(velocityX) /\ velY0 = JsonCopy(velocityY)
        /\ s = JsonCopy(density)
        /\ p = ZeroGrid /\ div = ZeroGrid
  /\ (pc = "project2") =>
        Project(velocityX, velocityY, p, div) = Project(velocityX, velocityY, ZeroGrid, ZeroGrid)

\* C20 witness: in the second frame of a run the second project call is
\* about to run with the pressure and the divergence of the first in p and
\* div
C20_Witness ==
  /\ pc = "project2" /\ caller = "animate" /\ twin = << >>
  /\ time = 2 * TimeStep
  /\ p # ZeroGrid /\ div # ZeroGrid
  /\ div # ProjectDiv(velocityX, velocityY, ZeroGrid)

C22_FrameLimited ==
  [][(caller \in {"compass", "particles"} /\ now' # now) =>
       LET elapsed == now' - lastTime
           tooSoon == IF caller = "compass" THEN elapsed < 16 ELSE 3 * elapsed < 50
       IN /\ Cardinality(pending') = 1
          /\ tooSoon => UNCHANGED <<time, lastTime, drawCalls, canvas>>
          /\ ~tooSoon => lastTime' = now' /\ time' # time /\ drawCalls' # << >>]_vars

\* C22 witness: a callback of the particle field, 16 ms after a frame it has
\* drawn, has left that frame on the canvas
C22_Witness ==
  /\ caller = "particles" /\ lastEvent = "animate"
  /\ now - lastTime = 16
  /\ drawCalls # << >> /\ drawCalls[1].t = lastTime
  /\ time = 1

\* the section a trigger on element e stands for: 0 for the hero, k for the
\* k-th story card, 5 for the footer
SectionOf(e) ==
  IF e = "hero" THEN 0
  ELSE IF e = "footer" THEN 5
  ELSE CHOOSE k \in 1 .. 4 : STORY_CARDS[k] = e

\* C23: activeSectionIndex is always one of 0..5, there are four story
\* cards, after the callback of a section's trigger it is that section's
\* number (0 hero, k for the k-th card, 5 footer), and it changes in no step
\* other than an onEnter or onEnterBack callback
C23_SectionIndex ==
  /\ [](caller = "app" =>
          /\ app.activeSectionIndex \in 0 .. 5
          /\ Len(STORY_CARDS) = 4
          /\ (lastEvent \in {"onEnter", "onEnterBack"} =>
                app.activeSectionIndex = SectionOf(app.entered)))
  /\ [][(caller = "app" /\ app'.activeSectionIndex # app.activeSectionIndex) =>
          lastEvent' \in {"onEnter", "onEnterBack"}]_vars

\* the fourth card's section has been entered from below
C23_Witness ==
  /\ caller = "app" /\ lastEvent = "onEnterBack"
  /\ app.entered = "04" /\ app.activeSectionIndex = 4

ArrayNames == {"velocityX", "velocityY", "density", "velX0", "velY0", "s", "p", "div"}

Arr(name) ==
  CASE name = "velocityX" -> velocityX
    [] name = "velocityY" -> velocityY
    [] name = "density" -> density
    [] name = "velX0" -> velX0
    [] name = "velY0" -> velY0
    [] name = "s" -> s
    [] name = "p" -> p
    [] name = "div" -> div

\* what the call c of step leaves in its destination
CallResult(c) ==
  IF c.fn = "diffuse"
    THEN Diffuse(Arr(c.dst), Arr(c.src), c.coef, dt)
    ELSE Advect(Arr(c.dst), Arr(c.src), Arr(c.u), Arr(c.v), dt)

\* the call at position n of step does what StepCalls says: the destination
\* gets the call's result from the arrays named, every other array is left
\* as it was
CallAsListed(n) ==
  /\ Arr(StepCalls[n].dst)' = CallResult(StepCalls[n])
  /\ \A a \in ArrayNames \ {StepCalls[n].dst} : Arr(a)' = Arr(a)

\* C24: both advect calls on the velocity read the flow field (velX0, velY0),
\* the one the first project call has just written: the first follows that
\* call directly, the second follows the first, and neither call changes
\* velX0 or velY0; and in every diffuse and advect call of step the array
\* written is another array than the one read and than the two of the flow
\* field
C24_NoAliasing ==
  /\ [](/\ \A n \in DOMAIN StepCalls :
             StepCalls[n].dst \notin {StepCalls[n].src, StepCalls[n].u, StepCalls[n].v}
        /\ \A n \in {"advectVelX", "advectVelY"} :
             StepCalls[n].u = "velX0" /\ StepCalls[n].v = "velY0"
        /\ (pc = "advectVelX" => done[Len(done)] = "project1")
        /\ (pc = "advectVelY" => done[Len(done)] = "advectVelX"))
  /\ [][\A n \in DOMAIN StepCalls : (pc = n /\ pc' # n) => CallAsListed(n)]_vars
  /\ [][(pc \in {"advectVelX", "advectVelY"}) => UNCHANGED <<velX0, velY0>>]_vars

\* the second advect call has run and has changed velocity.y, with a flow
\* field that is not zero and a velocity.x that the first call has changed
C24_Witness ==
  /\ caller = "animate" /\ pc = "project2"
  /\ velocityY # velY0 /\ velocityX # velX0
  /\ velX0 # ZeroGrid /\ velY0 # ZeroGrid

\* C25: on the 96 by 54 grid of the component, in every state of a run
\* (after initArrays, after each addForces and after each step) velocity.x,
\* velocity.y and the density are 0 at every cell of column 0, column 95,
\* row 0 and row 53
C25_BoundaryZero ==
  (caller = "border") =>
    \A c \in BorderCellsAt(GridW, GridH) :
      velocityX[c] = 0 /\ velocityY[c] = 0 /\ density[c] = 0

\* a frame in which every guard of addForces has passed and the outermost
\* gyre has written in column 90, the nearest to the border it comes
C25_Witness ==
  /\ caller = "border" /\ lastEvent = "step" /\ calls > 1
  /\ \A m \in 1 .. 19 :
       ForceGuardAt(GridW, GridH, ForcingWrites(GridW, GridH, time, intensity)[m].x,
                    ForcingWrites(GridW, GridH, time, intensity)[m].y)
  /\ \E m \in 1 .. 19 : ForcingWrites(GridW, GridH, time, intensity)[m].x = 90

\* C26: while the intensity is 0, from the zero grids initArrays makes,
\* velocity.x and velocity.y are zero at every cell in every state, after
\* any number of frames and inside them, and so are the copies step works on
C26_NoForcingNoFlow ==
  (caller = "animate" /\ effect = "active" /\ intensity = 0) =>
    /\ velocityX = ZeroGrid /\ velocityY = ZeroGrid
    /\ (pc \in {"diffuseVelX", "diffuseVelY", "project1", "advectVelX", "advectVelY",
                "project2", "diffuseDensity", "advectDensity", "decay"} =>
          velX0 = ZeroGrid /\ velY0 = ZeroGrid)

\* two frames have run at intensity 0 with a time step above 0, and
\* addForces has put density on the grid
C26_Witness ==
  /\ caller = "animate" /\ effect = "active" /\ intensity = 0
  /\ pc = "idle" /\ time >= 2 * TimeStep /\ dt > 0
  /\ lastEvent = "animate"
  /\ density # ZeroGrid

\* the intensities of the other run
OtherIntensities == {0, Unit \div 2, -40 * Unit, PInf}

\* the density the writes wrs up to the m-th add at cell c
RECURSIVE InjectedAt(_, _, _)
InjectedAt(wrs, m, c) ==
  IF m = 0 THEN 0
  ELSE InjectedAt(wrs, m - 1, c)
       + (IF ForceGuardAt(width, height, wrs[m].x, wrs[m].y) /\ <<wrs[m].x, wrs[m].y>> = c
          THEN wrs[m].amount ELSE 0)

\* the step has added to each cell of the density what wrs says, capped at 1
InjectedAsListed(wrs) ==
  \A c \in Cols \X Rows :
    density'[c[1]][c[2]] = FMin(density[c[1]][c[2]] + InjectedAt(wrs, Len(wrs), c), Unit)

\* C27: the density an addForces call leaves is the density it would leave
\* from the same grids at any other intensity; at each cell it is the
\* density before plus 0.8 if the stream writes there and (g + 1) / 4 for
\* each sample of gyre g that writes there, capped at 1; and at intensity 0
\* the call would leave the velocity as it was
C27_DensityIgnoresIntensity ==
  [][(caller = "step" /\ pc = "addForces") =>
       /\ \A i2 \in OtherIntensities :
            density' = AddForces([velX |-> velocityX, velY |-> velocityY, density |-> density],
                                 time', i2).density
       /\ \A wrs \in {ForcingWrites(width, height, time', intensity)} :
            InjectedAsListed(wrs)
       /\ AddForces([velX |-> velocityX, velY |-> velocityY, density |-> density],
                    time', 0).velX = velocityX
       /\ AddForces([velX |-> velocityX, velY |-> velocityY, density |-> density],
                    time', 0).velY = velocityY]_vars

\* addForces has run on grids that held density and has changed the
\* velocity; a cell that held density has been capped at 1
C27_Witness ==
  /\ caller = "step" /\ pc = "idle" /\ lastEvent = "addForces"
  /\ velocityX # ZeroGrid
  /\ \E i \in Cols, j \in Rows :
       /\ densityBefore[i][j] > 0 /\ densityBefore[i][j] < Unit
       /\ density[i][j] = Unit

\* C28: for the ocean, the particle field and the rose alike, at most one
\* animation-frame callback is pending in every state; when a run of the
\* effect body is on its way to its first request, the mount's or a re-run's,
\* none is pending, the cleanup having cancelled the old loop's; and a step
\* that makes a request leaves the frame it has requested as the only one
\* pending
C28_OnePending ==
  /\ [](Cardinality(pending) <= 1)
  /\ []((pc = "compassEffect" \/ (inEffect /\ pc # "listen")) => pending = {})
  /\ [][\A h \in pending' \ pending : pending' = {h}]_vars

\* the particle field's effect has run again on a new scrollProgress, after
\* frames of the old loop, and the new loop's first frame is pending
C28_Witness ==
  /\ caller = "particles" /\ effect = "active" /\ pc = "idle"
  /\ lastEvent = "scrollProgress" /\ now > 0
  /\ Cardinality(pending) = 1

====
